---- MODULE Spec2Model ----
(***************************************************************************)
(* Model of the Gmail notification dedup-and-dispatch pipeline             *)
(* (src/src/notification_handler.py) together with the parts of            *)
(* src/src/gmail_service.py and src/src/claude_service.py it relies on.    *)
(*                                                                         *)
(* Text is modelled by TLA+ strings; characters are one-character strings  *)
(* obtained with SubSeq, so lower(), upper(), strip(), startswith() and    *)
(* the substring test are computed character by character.                 *)
(* Times are whole seconds. Message ids and history ids are integers.      *)
(*                                                                         *)
(* Spec       the pipeline from a fresh ledger: MaxDeliveries envelopes,   *)
(*            each handled by a pool worker, interleaved at every access   *)
(*            to a locked set and at every mailbox call.                   *)
(* SpecAged   the same pipeline, the three sets filled up to their limits  *)
(*            by earlier traffic.                                          *)
(* SpecRetry  retry_gmail_operation alone, on every operation drawn.       *)
(* SpecFilter is_valid_claude_email and is_system_generated_email alone,   *)
(*            on every message drawn.                                      *)
(* SpecWorker one worker going through a resolved list of up to MaxBatch   *)
(*            candidates, every step recorded in trace.                    *)
(* SpecReceiver  the pull callback and the webhook handler in front of the *)
(*            pipeline: decoding, submission, the future's result or       *)
(*            timeout, ack / nack and the HTTP status, in transport.       *)
(* SpecRedelivery  deliveries one after the other on a ledger whose        *)
(*            message set is at its limit; gates, claims and agent calls   *)
(*            recorded in trace.                                           *)
(* SpecLookup  one worker from the resolution of the candidates onwards:   *)
(*            the history lookup and the unread-query fallback, in trace.  *)
(* SpecProgress  one agent session streaming long and short chunks.        *)
(* SpecCleanup  cleanup_processed_messages alone, around the hour and      *)
(*            around the limits of the three sets.                         *)
(* SpecPool   more tasks submitted than the executor has threads.          *)
(* SpecLocks  two workers, every `with <lock>:` block entered in a step of *)
(*            its own, the holder of each lock in locks.                   *)
(* SpecShutdown  the pull subscription with its workers, and the cancel of *)
(*            start_listening on KeyboardInterrupt.                        *)
(* SpecPullFair  SpecShutdown with every pool thread running its task and  *)
(*            every callback leaving future.result once the future is done.*)
(* SpecAbandon  one pull envelope whose worker goes through its candidates,*)
(*            and the same notification delivered again.                   *)
(*                                                                         *)
(* The clock moves only while no notification is being processed (Tick);   *)
(* a mailbox call made through the retry wrapper yields a value, None or   *)
(* an exception, whichever the API outcomes of its attempts give.          *)
(***************************************************************************)
EXTENDS Integers, Sequences, FiniteSets, TLC

VARIABLES
    processed_messages,     \* self.processed_messages
    processed_history_ids,  \* self.processed_history_ids
    sent_message_ids,       \* self.sent_message_ids
    last_cleanup_time,      \* self.last_cleanup_time
    server_start_time,      \* self.server_start_time
    now,                    \* wall clock, time.time()
    mailbox,                \* the Gmail mailbox: sequence of messages, id = index
    tasks,                  \* one record per delivered envelope / submitted worker
    agent_calls,            \* message id -> number of process_email_request_streaming calls
    resolutions,            \* history id -> number of candidate resolutions dispatched
    evictions,              \* history id -> number of times cleanup dropped it
    retry,                  \* retry_gmail_operation under test (SpecRetry)
    probe,                  \* eligibility / system-generated filter under test (SpecFilter)
    trace,                  \* what the workers have done so far, in order
    transport,              \* the envelopes received and what the receiver answered
    locks,                  \* threading.Lock name -> the worker inside its `with` block, 0 = free
    left_block,             \* the workers past the `with` block their current step starts with
    streaming_pull_future   \* the subscription of start_listening: "running" or "cancelled"

vars ==
    <<processed_messages, processed_history_ids, sent_message_ids, last_cleanup_time,
      server_start_time, now, mailbox, tasks, agent_calls, resolutions, evictions,
      retry, probe, trace, transport, locks, left_block, streaming_pull_future>>

ledgerVars ==
    <<processed_messages, processed_history_ids, sent_message_ids, last_cleanup_time>>

mainVars ==
    <<processed_messages, processed_history_ids, sent_message_ids, last_cleanup_time,
      server_start_time, now, mailbox, tasks, agent_calls, resolutions, evictions>>

\* the three locks of NotificationHandler.__init__, one per ledger set
LOCKS ==
    {"processed_messages_lock", "processed_history_ids_lock", "sent_message_ids_lock"}

\* what the observers of a run record, and the locks; the pipeline steps of the
\* specifications that take each `with` block as one step never read them
observerVars ==
    <<trace, transport, locks, left_block, streaming_pull_future>>

(***************************************************************************)
(* Python string operations                                                *)
(***************************************************************************)
UpperChars ==
    <<"A","B","C","D","E","F","G","H","I","J","K","L","M",
      "N","O","P","Q","R","S","T","U","V","W","X","Y","Z">>

LowerChars ==
    <<"a","b","c","d","e","f","g","h","i","j","k","l","m",
      "n","o","p","q","r","s","t","u","v","w","x","y","z">>

WhitespaceChars ==
    {" ", "\t", "\n", "\r", "\f"}

CharAt(s, i) ==
    SubSeq(s, i, i)

LowerChar(c) ==
    IF \E i \in 1..26 : UpperChars[i] = c
    THEN LowerChars[CHOOSE i \in 1..26 : UpperChars[i] = c]
    ELSE c

UpperChar(c) ==
    IF \E i \in 1..26 : LowerChars[i] = c
    THEN UpperChars[CHOOSE i \in 1..26 : LowerChars[i] = c]
    ELSE c

RECURSIVE lower(_)
lower(s) ==
    IF Len(s) = 0 THEN ""
    ELSE LowerChar(CharAt(s, 1)) \o lower(SubSeq(s, 2, Len(s)))

RECURSIVE upper(_)
upper(s) ==
    IF Len(s) = 0 THEN ""
    ELSE UpperChar(CharAt(s, 1)) \o upper(SubSeq(s, 2, Len(s)))

RECURSIVE lstrip(_)
lstrip(s) ==
    IF Len(s) > 0 /\ CharAt(s, 1) \in WhitespaceChars
    THEN lstrip(SubSeq(s, 2, Len(s)))
    ELSE s

RECURSIVE rstrip(_)
rstrip(s) ==
    IF Len(s) > 0 /\ CharAt(s, Len(s)) \in WhitespaceChars
    THEN rstrip(SubSeq(s, 1, Len(s) - 1))
    ELSE s

strip(s) ==
    rstrip(lstrip(s))

\* Python's `p in s`
contains(s, p) ==
    \E i \in 0..(Len(s) - Len(p)) : SubSeq(s, i + 1, i + Len(p)) = p

startswith(s, p) ==
    Len(s) >= Len(p) /\ SubSeq(s, 1, Len(p)) = p

(***************************************************************************)
(* Results of calls: a value, Python's None, or a raised exception         *)
(***************************************************************************)
Value(v) ==
    [kind |-> "value", val |-> v]

NoneResult ==
    [kind |-> "none"]

Raise(exc) ==
    [kind |-> "raise", exc |-> exc]

IsNone(r) ==
    r.kind = "none"

\* Python truthiness of a result holding a string (None and '' are falsy)
TruthyStr(r) ==
    r.kind = "value" /\ r.val # ""

\* ... holding a number (None, 0 and 0.0 are falsy)
TruthyNum(r) ==
    r.kind = "value" /\ r.val # 0

\* ... holding a list (None and [] are falsy)
TruthyList(r) ==
    r.kind = "value" /\ r.val # <<>>

(***************************************************************************)
(* Retry wrapper: NotificationHandler.retry_gmail_operation                *)
(* An operation is the sequence of what its successive calls do: each call *)
(* returns (kind "value" or "none") or raises (kind "raise").              *)
(***************************************************************************)
DEFAULT_MAX_RETRIES ==
    3

DEFAULT_DELAY ==
    2

\* except (ssl.SSLError, HttpError, ConnectionError, OSError)
TransientErrors ==
    {"SSLError", "HttpError", "ConnectionError", "OSError"}

\* variant: a bare `except Exception` that retries every error
IsTransient_CatchAll(r) ==
    r.kind = "raise"

IsTransient(r) ==
    r.kind = "raise" /\ r.exc \in TransientErrors

\* variant: the same pause after every failure
backoff_Constant(delay, attempt) ==
    delay

\* time.sleep(delay * (2 ** attempt)), line 83
backoff(delay, attempt) ==
    delay * (2 ^ attempt)

RECURSIVE retry_loop(_, _, _, _, _)
\* variant: the last attempt lets the transient error out instead of returning None
retry_loop_RaiseOnLast(operation, attempt, max_retries, delay, sleeps) ==
    IF attempt >= max_retries
    THEN [result |-> NoneResult, calls |-> attempt, sleeps |-> sleeps]
    ELSE LET r == operation[attempt + 1] IN
         IF ~IsTransient(r) \/ attempt = max_retries - 1
         THEN [result |-> r, calls |-> attempt + 1, sleeps |-> sleeps]
         ELSE retry_loop(operation, attempt + 1, max_retries, delay,
                         Append(sleeps, backoff(delay, attempt)))

\* for attempt in range(max_retries): try/except of lines 75-84.
\* result: what the wrapper returns or raises; calls: how often it invoked
\* the operation; sleeps: the time.sleep() durations in order.
retry_loop(operation, attempt, max_retries, delay, sleeps) ==
    IF attempt >= max_retries
    THEN [result |-> NoneResult, calls |-> attempt, sleeps |-> sleeps]
    ELSE LET r == operation[attempt + 1] IN
         IF ~IsTransient(r)
         THEN [result |-> r, calls |-> attempt + 1, sleeps |-> sleeps]
         ELSE IF attempt = max_retries - 1
              THEN [result |-> NoneResult, calls |-> attempt + 1, sleeps |-> sleeps]
              ELSE retry_loop(operation, attempt + 1, max_retries, delay,
                              Append(sleeps, backoff(delay, attempt)))

retry_gmail_operation(operation, max_retries, delay) ==
    retry_loop(operation, 0, max_retries, delay, <<>>)

(***************************************************************************)
(* Eligibility filter and system-generated filter                          *)
(***************************************************************************)
TARGET_ADDRESS ==
    "jonathanmingli@gmail.com"

REQUIRED_SUBJECT ==
    "CLAUDE"

\* system_patterns of is_system_generated_email, in list order
system_patterns ==
    << "ack",
       "Progress update:",
       "Task completed!",
       "Claude processing failed with error:",
       "Processing with Claude Code",
       "Claude response generated" >>

MIN_CONTENT_LENGTH ==
    10

\* variant: subject.strip().upper()
subject_matches_Trimmed(subject) ==
    upper(strip(subject)) = REQUIRED_SUBJECT

\* subject.upper() != 'CLAUDE'  (line 145)
subject_matches(subject) ==
    upper(subject) = REQUIRED_SUBJECT

\* is_valid_claude_email, given what the three wrapped fetches of lines
\* 122-130 gave (a value, None, or an exception caught at line 150).
is_valid_claude_email(sender, recipient, subject) ==
    IF sender.kind = "raise" \/ recipient.kind = "raise" \/ subject.kind = "raise"
    THEN [valid |-> FALSE, reason |-> "Error checking email criteria"]
    ELSE IF IsNone(sender) \/ IsNone(recipient) \/ IsNone(subject)
    THEN [valid |-> FALSE, reason |-> "Failed to retrieve email details due to network errors"]
    ELSE IF lower(sender.val) # TARGET_ADDRESS
    THEN [valid |-> FALSE, reason |-> "Sender is not jonathanmingli@gmail.com"]
    ELSE IF lower(recipient.val) # TARGET_ADDRESS
    THEN [valid |-> FALSE, reason |-> "Recipient is not jonathanmingli@gmail.com"]
    ELSE IF ~subject_matches(subject.val)
    THEN [valid |-> FALSE, reason |-> "Subject is not 'CLAUDE'"]
    ELSE [valid |-> TRUE, reason |-> "Email meets all criteria for Claude processing"]

\* variant: `if pattern in content_lower`, the pattern not lower-cased
first_pattern_CaseSensitive(content_lower) ==
    IF \E i \in 1..Len(system_patterns) : contains(content_lower, system_patterns[i])
    THEN CHOOSE i \in 1..Len(system_patterns) :
            /\ contains(content_lower, system_patterns[i])
            /\ \A j \in 1..(i - 1) : ~contains(content_lower, system_patterns[j])
    ELSE 0

\* for pattern in system_patterns: if pattern.lower() in content_lower (lines
\* 105-107): index of the first pattern found in content_lower, 0 if none
first_pattern(content_lower) ==
    IF \E i \in 1..Len(system_patterns) : contains(content_lower, lower(system_patterns[i]))
    THEN CHOOSE i \in 1..Len(system_patterns) :
            /\ contains(content_lower, lower(system_patterns[i]))
            /\ \A j \in 1..(i - 1) : ~contains(content_lower, lower(system_patterns[j]))
    ELSE 0

\* is_system_generated_email(message_content, sender_email, message_id), read
\* against the set sent_ids held by self.sent_message_ids at that moment.
is_system_generated_email(message_content, sender_email, message_id, sent_ids) ==
    LET content_lower == strip(lower(message_content))
        hit == first_pattern(content_lower)
    IN  IF message_id \in sent_ids
        THEN [is_system |-> TRUE, reason |-> "Email was sent by this system", pattern |-> ""]
        ELSE IF hit # 0
        THEN [is_system |-> TRUE, reason |-> "Email contains system pattern",
              pattern |-> system_patterns[hit]]
        ELSE IF Len(content_lower) < MIN_CONTENT_LENGTH
        THEN [is_system |-> TRUE, reason |-> "Email is too short (likely system-generated)",
              pattern |-> ""]
        ELSE [is_system |-> FALSE, reason |-> "Email appears to be user-generated",
              pattern |-> ""]

(***************************************************************************)
(* Bounds of the model                                                     *)
(***************************************************************************)
\* envelopes the transport delivers in one run
MaxDeliveries ==
    2

\* distinct history ids the transport refers to
NumCursors ==
    2

\* candidate messages one resolution returns
MaxCandidates ==
    1

\* text chunks the agent streams during one invocation
MaxChunks ==
    3

\* cleanup intervals that pass during one run
MaxHours ==
    1

\* length of the operations given to the retry wrapper under test
RetryLen ==
    3

(***************************************************************************)
(* Mailbox capability: src/src/gmail_service.py                            *)
(***************************************************************************)
\* server start, time.time() at construction, in whole seconds
START_TIME ==
    1000

HistoryIds ==
    1..NumCursors

\* A message as users().messages().get returns it: From/To/Subject header
\* values, the text/plain body, internalDate in milliseconds (0 stands for a
\* message without internalDate), threadId; by tells who created it.
Message(f, t, s, b, d, th, who) ==
    [from |-> f, to |-> t, subject |-> s, body |-> b, internalDate |-> d,
     threadId |-> th, by |-> who]

\* The messages users send: the first arrives in the very second the server
\* starts, the second in the last millisecond before it. A message is looked
\* at only when a notification resolves to it, and its date is compared with
\* server_start_time only.
UserMessages ==
    << Message("Jon <jonathanmingli@gmail.com>", TARGET_ADDRESS, "CLAUDE",
               "do the thing", START_TIME * 1000, "t1", "user"),
       Message(TARGET_ADDRESS, TARGET_ADDRESS, "claude",
               "fix the login bug", (START_TIME - 1) * 1000 + 999, "t2", "user") >>

RECURSIVE after_first(_, _)
\* s.split(c)[1] onwards: the text after the first occurrence of character c
after_first(s, c) ==
    IF Len(s) = 0 THEN ""
    ELSE IF CharAt(s, 1) = c THEN SubSeq(s, 2, Len(s))
    ELSE after_first(SubSeq(s, 2, Len(s)), c)

RECURSIVE before_first(_, _)
\* s.split(c)[0]: the text before the first occurrence of character c
before_first(s, c) ==
    IF Len(s) = 0 THEN ""
    ELSE IF CharAt(s, 1) = c THEN ""
    ELSE CharAt(s, 1) \o before_first(SubSeq(s, 2, Len(s)), c)

\* "Name <email@example.com>" -> header.split('<')[1].split('>')[0]
extract_address(header) ==
    IF contains(header, "<") /\ contains(header, ">")
    THEN before_first(before_first(after_first(header, "<"), "<"), ">")
    ELSE header

get_sender_email(message_id) ==
    extract_address(mailbox[message_id].from)

get_recipient_email(message_id) ==
    extract_address(mailbox[message_id].to)

get_subject(message_id) ==
    mailbox[message_id].subject

get_message_content(message_id) ==
    mailbox[message_id].body

\* int(message.get('internalDate', 0)) / 1000.0, compared with a whole second
get_message_timestamp(message_id) ==
    mailbox[message_id].internalDate \div 1000

get_thread_id(message_id) ==
    mailbox[message_id].threadId

\* variant: the reply carries the subject of the request as it is
reply_subject_Same(subject) ==
    subject

\* f"Re: {subject}" if not subject.startswith('Re:') else subject
reply_subject(subject) ==
    IF startswith(subject, "Re:") THEN subject ELSE "Re: " \o subject

\* The message send_reply_email puts into the mailbox: a self-addressed reply
\* is one message, with the id the send call returns. It is sent while the
\* server runs, so its date is not before server_start_time; the earliest
\* such date stands for all of them.
send_reply_email(thread_id, to_email, subject, body) ==
    Message(TARGET_ADDRESS, to_email, reply_subject(subject), body,
            server_start_time * 1000, thread_id, "system")

\* What one call of the API does: it succeeds or raises.
RawOutcomes ==
    {"ok", "HttpError", "SSLError", "KeyError"}

Methods ==
    {"get_sender_email", "get_recipient_email", "get_subject", "get_message_content",
     "get_message_timestamp", "get_thread_id", "send_reply_email", "get_history",
     "get_recent_messages"}

\* One call of a GmailService method on one API outcome: "real" is the value
\* the mailbox holds. get_message_timestamp, get_thread_id and
\* send_reply_email catch HttpError and return 0.0, '' and None.
MethodAttempt(method, raw) ==
    IF raw = "ok" THEN Value("real")
    ELSE IF raw = "HttpError" /\ method = "get_message_timestamp" THEN Value("zero")
    ELSE IF raw = "HttpError" /\ method = "get_thread_id" THEN Value("empty")
    ELSE IF raw = "HttpError" /\ method = "send_reply_email" THEN NoneResult
    ELSE Raise(raw)

\* The results retry_gmail_operation(lambda: method(...)) can give.
WrappedResults ==
    [method \in Methods |->
        { retry_gmail_operation([i \in 1..DEFAULT_MAX_RETRIES |-> MethodAttempt(method, raws[i])],
                                DEFAULT_MAX_RETRIES, DEFAULT_DELAY).result :
            raws \in [1..DEFAULT_MAX_RETRIES -> RawOutcomes] }]

GmailCall(method, v) ==
    { IF r.kind # "value" THEN r
      ELSE IF r.val = "real" THEN Value(v)
      ELSE IF r.val = "zero" THEN Value(0)
      ELSE Value("") : r \in WrappedResults[method] }

(***************************************************************************)
(* Dedup ledger: cleanup_processed_messages                                *)
(***************************************************************************)
CLEANUP_INTERVAL ==
    3600

MAX_PROCESSED ==
    100

KEEP_PROCESSED ==
    50

MAX_HISTORY ==
    100

KEEP_HISTORY ==
    50

MAX_SENT ==
    50

KEEP_SENT ==
    25

MAX_WORKERS ==
    4

\* Ids of traffic handled before the run starts are negative: no later
\* notification refers to them, so they are interchangeable.
OldIds(n) ==
    {0 - k : k \in 1..n}

Largest(S, n) ==
    {x \in S : Cardinality({y \in S : y > x}) < n}

\* variant: the slice is dropped, every id survives
keep_last_All(ids, keep) ==
    {ids}

\* set(list(ids)[-keep:]): the iteration order of a Python set is arbitrary, so
\* any keep elements may survive. Every choice among the ids the run can still
\* refer to is taken; among the interchangeable old ids one choice stands for all.
keep_last(ids, keep) ==
    LET live == {x \in ids : x > 0}
        old == ids \ live
    IN  { K \cup Largest(old, keep - Cardinality(K)) :
            K \in {L \in SUBSET live :
                      /\ Cardinality(L) <= keep
                      /\ keep - Cardinality(L) <= Cardinality(old)} }

\* if len(ids) > limit: ids = set(list(ids)[-keep:])
trimmed(ids, limit, keep) ==
    IF Cardinality(ids) > limit THEN keep_last(ids, keep) ELSE {ids}

\* variant: `>=` in place of `>`
cleanup_due_Inclusive(current_time) ==
    current_time - last_cleanup_time >= CLEANUP_INTERVAL

\* if current_time - self.last_cleanup_time > 3600
cleanup_due(current_time) ==
    current_time - last_cleanup_time > CLEANUP_INTERVAL

(***************************************************************************)
(* Dispatch workers: one task per delivered envelope                       *)
(***************************************************************************)
\* the text chunks the agent streams (longer than PROGRESS_MIN_LENGTH)
Chunks ==
    { "I have finished the edit and run the unit tests now." }

AGENT_ERROR_TEXT ==
    "Error launching Claude session: exit 1"

DEFAULT_RESPONSE ==
    "Claude session completed successfully."

PROGRESS_MIN_LENGTH ==
    50

PROGRESS_EVERY ==
    3

\* The locals of one process_notification call; pc is its position.
NewTask(h) ==
    [history_id |-> h, pc |-> "queued", current_time |-> 0, recent |-> <<>>, i |-> 0,
     thread_id |-> NoneResult, updates |-> <<>>, pending |-> 0]

\* process_notification returns: its locals are gone
Finish(r) ==
    [NewTask(r.history_id) EXCEPT !.pc = "done"]

Running ==
    {t \in 1..Len(tasks) : tasks[t].pc \notin {"queued", "done"}}

\* the candidate a task is working on
Current(t) ==
    tasks[t].recent[tasks[t].i]

\* variant: a rejected candidate ends the loop, as an error does
Advance_Stop(r) ==
    Finish(r)

\* `continue`: on to the next candidate of recent_messages, or the loop ends
Advance(r) ==
    IF r.i + 1 > Len(r.recent) THEN Finish(r)
    ELSE [r EXCEPT !.i = @ + 1, !.pc = "gate", !.updates = <<>>, !.pending = 0,
                   !.thread_id = NoneResult]

\* variant: the exception leaves process_notification
Abandon_Raised(r) ==
    [NewTask(r.history_id) EXCEPT !.pc = "raised"]

\* except Exception as error (line 398): the notification is abandoned
Abandon(r) ==
    Finish(r)

InitLedgerFresh ==
    /\ processed_messages = {}
    /\ processed_history_ids = {}
    /\ sent_message_ids = {}

\* The ledger after earlier traffic filled each set up to its limit.
InitLedgerAged ==
    /\ processed_messages = OldIds(MAX_PROCESSED)
    /\ processed_history_ids = OldIds(MAX_HISTORY)
    /\ sent_message_ids = OldIds(MAX_SENT)

InitRest ==
    /\ last_cleanup_time = START_TIME
    /\ server_start_time = START_TIME
    /\ now = START_TIME
    /\ mailbox = UserMessages
    /\ tasks = <<>>
    /\ agent_calls = [m \in 1..Len(UserMessages) |-> 0]
    /\ resolutions = [h \in HistoryIds |-> 0]
    /\ evictions = [h \in HistoryIds |-> 0]

Idle ==
    [phase |-> "idle"]

\* time.time() moves on: just over a cleanup interval passes while no
\* notification is being processed, at most MaxHours times in a run
Tick ==
    /\ \A t \in 1..Len(tasks) : tasks[t].pc = "done"
    /\ now + CLEANUP_INTERVAL + 1 <= START_TIME + MaxHours * (CLEANUP_INTERVAL + 1)
    /\ now' = now + CLEANUP_INTERVAL + 1
    /\ UNCHANGED <<ledgerVars, server_start_time, mailbox, tasks, agent_calls,
                   resolutions, evictions, retry, probe>>

\* callback / webhook: executor.submit(self.process_notification, notification_data)
Deliver(h) ==
    /\ Len(tasks) < MaxDeliveries
    /\ \A g \in 1..(h - 1) : \E t \in 1..Len(tasks) : tasks[t].history_id = g
    /\ tasks' = Append(tasks, NewTask(h))
    /\ UNCHANGED <<ledgerVars, server_start_time, now, mailbox, agent_calls, resolutions,
                   evictions, retry, probe>>

\* variant: a thread for every submitted task
pool_has_free_thread_Unbounded(running) ==
    TRUE

\* variant: no thread ever takes a task
pool_has_free_thread_Never(running) ==
    FALSE

\* ThreadPoolExecutor(max_workers=4): a submitted task waits in the pool's
\* queue until one of the 4 threads is free
pool_has_free_thread(running) ==
    Cardinality(running) < MAX_WORKERS

\* ThreadPoolExecutor(max_workers=4): a free pool thread takes the task
Start(t) ==
    /\ tasks[t].pc = "queued"
    /\ pool_has_free_thread(Running)
    /\ tasks' = [tasks EXCEPT ![t].pc = "cleanup"]
    /\ UNCHANGED <<ledgerVars, server_start_time, now, mailbox, agent_calls, resolutions,
                   evictions, retry, probe>>

\* cleanup_processed_messages, lines 155-164: read the clock, test the hour,
\* trim processed_messages under its lock
CleanupMessages(t) ==
    /\ tasks[t].pc = "cleanup"
    /\ IF cleanup_due(now)
       THEN /\ processed_messages' \in trimmed(processed_messages, MAX_PROCESSED, KEEP_PROCESSED)
            /\ tasks' = [tasks EXCEPT ![t].pc = "cleanup_history", ![t].current_time = now]
       ELSE /\ processed_messages' = processed_messages
            /\ tasks' = [tasks EXCEPT ![t].pc = "cursor", ![t].current_time = now]
    /\ UNCHANGED <<processed_history_ids, sent_message_ids, last_cleanup_time,
                   server_start_time, now, mailbox, agent_calls, resolutions, evictions,
                   retry, probe>>

\* lines 166-171: trim processed_history_ids under its lock
CleanupHistory(t) ==
    /\ tasks[t].pc = "cleanup_history"
    /\ processed_history_ids' \in trimmed(processed_history_ids, MAX_HISTORY, KEEP_HISTORY)
    /\ evictions' = [h \in HistoryIds |->
                        IF h \in processed_history_ids /\ h \notin processed_history_ids'
                        THEN evictions[h] + 1 ELSE evictions[h]]
    /\ tasks' = [tasks EXCEPT ![t].pc = "cleanup_sent"]
    /\ UNCHANGED <<processed_messages, sent_message_ids, last_cleanup_time,
                   server_start_time, now, mailbox, agent_calls, resolutions, retry, probe>>

\* lines 173-180: trim sent_message_ids under its lock, then
\* self.last_cleanup_time = current_time
CleanupSent(t) ==
    /\ tasks[t].pc = "cleanup_sent"
    /\ sent_message_ids' \in trimmed(sent_message_ids, MAX_SENT, KEEP_SENT)
    /\ last_cleanup_time' = tasks[t].current_time
    /\ tasks' = [tasks EXCEPT ![t].pc = "cursor"]
    /\ UNCHANGED <<processed_messages, processed_history_ids, server_start_time, now,
                   mailbox, agent_calls, resolutions, evictions, retry, probe>>

\* variant: the check without the add
claim_history_NoInsert(ids, h) ==
    [fresh |-> h \notin ids, ids |-> ids]

\* with self.processed_history_ids_lock: check, return or add (lines 194-198)
claim_history(ids, h) ==
    IF h \in ids
    THEN [fresh |-> FALSE, ids |-> ids]
    ELSE [fresh |-> TRUE, ids |-> ids \cup {h}]

CursorGate(t) ==
    /\ tasks[t].pc = "cursor"
    /\ LET c == claim_history(processed_history_ids, tasks[t].history_id) IN
        /\ processed_history_ids' = c.ids
        /\ tasks' = [tasks EXCEPT ![t] = IF c.fresh THEN [@ EXCEPT !.pc = "resolve"]
                                          ELSE Finish(@)]
    /\ UNCHANGED <<processed_messages, sent_message_ids, last_cleanup_time,
                   server_start_time, now, mailbox, agent_calls, resolutions, evictions,
                   retry, probe>>

\* lists of distinct message ids of the mailbox, at most MaxCandidates long
CandLists ==
    UNION { {l \in [1..n -> 1..Len(mailbox)] : \A a, b \in 1..n : a # b => l[a] # l[b]} :
              n \in 0..MaxCandidates }

UNREAD_LIMIT ==
    5

\* history().list(): no history, or one history item whose messagesAdded lists
\* the ids (an empty list stands for an item without messagesAdded)
HistoryResponses ==
    {<<>>} \cup { <<l>> : l \in CandLists }

RECURSIVE messages_added(_)
\* lines 209-213: the ids of all messagesAdded entries, in order
messages_added(history) ==
    IF history = <<>> THEN <<>>
    ELSE Head(history) \o messages_added(Tail(history))

\* retry_gmail_operation(get_recent_messages(query="is:unread", max_results=5))
UnreadLookup ==
    UNION { GmailCall("get_recent_messages", l) : l \in {c \in CandLists : Len(c) <= UNREAD_LIMIT} }

\* if history_changes: (line 207)
history_usable(hr) ==
    TruthyList(hr)

\* the unread query made as the fallback, after `made` earlier unread queries
\* of the same resolution: hr is what the history lookup gave
Fallback(hr, made, results) ==
    { [history |-> hr, unread |-> made + 1, result |-> f] : f \in results }

\* lines 200-232, one record per way the lookups can go: what get_history
\* gave, how many unread queries were made, and what recent_messages is (an
\* exception of the query at line 216 is caught at line 223, which queries
\* again; an exception of the query at line 226 leaves the try of line 184)
ResolveRuns ==
    UNION { IF hr.kind = "raise"
            THEN Fallback(hr, 0, UnreadLookup)
            ELSE IF history_usable(hr)
            THEN { [history |-> hr, unread |-> 0,
                    result |-> Value(messages_added(hr.val))] }
            ELSE UNION { IF f.kind = "raise" THEN Fallback(hr, 1, UnreadLookup)
                         ELSE Fallback(hr, 0, {f}) : f \in UnreadLookup } :
            hr \in UNION { GmailCall("get_history", h) : h \in HistoryResponses } }

\* lines 200-232: history lookup, fallback to the unread query
ResolveOutcomes ==
    { run.result : run \in ResolveRuns }

\* lines 200-242 when the lookups give o: an exception reaches line 398, None
\* returns at line 236, an empty list ends the loop at once
ResolveTo(t, o) ==
    /\ tasks[t].pc = "resolve"
    /\ resolutions' = [resolutions EXCEPT ![tasks[t].history_id] = @ + 1]
    /\ tasks' = [tasks EXCEPT ![t] =
            IF o.kind = "raise" THEN Abandon(@)
            ELSE IF o.kind = "none" \/ o.val = <<>> THEN Finish(@)
            ELSE [@ EXCEPT !.recent = o.val, !.i = 1, !.pc = "gate"]]
    /\ UNCHANGED <<ledgerVars, server_start_time, now, mailbox, agent_calls, evictions,
                   retry, probe>>

Resolve(t) ==
    /\ tasks[t].pc = "resolve"
    /\ \E o \in ResolveOutcomes : ResolveTo(t, o)

\* variant: `<=` in place of `<`
is_old_message_Inclusive(ts, start) ==
    TruthyNum(ts) /\ ts.val <= start

\* if message_timestamp and message_timestamp < self.server_start_time (line 257)
is_old_message(ts, start) ==
    TruthyNum(ts) /\ ts.val < start

\* is_valid_claude_email with its three wrapped fetches (an exception of a
\* fetch ends them, line 150): the verdict and the mailbox calls made
ValidOutcomes(m) ==
    UNION { IF s.kind = "raise"
            THEN { [check |-> is_valid_claude_email(s, s, s),
                    calls |-> << "get_sender_email" >>] }
            ELSE UNION { IF r.kind = "raise"
                         THEN { [check |-> is_valid_claude_email(s, r, r),
                                 calls |-> << "get_sender_email", "get_recipient_email" >>] }
                         ELSE { [check |-> is_valid_claude_email(s, r, j),
                                 calls |-> << "get_sender_email", "get_recipient_email",
                                              "get_subject" >>] :
                                  j \in GmailCall("get_subject", get_subject(m)) } :
                         r \in GmailCall("get_recipient_email", get_recipient_email(m)) } :
            s \in GmailCall("get_sender_email", get_sender_email(m)) }

\* lines 269-279: fetch content and sender; None skips, an exception abandons
ContentOutcomes(m) ==
    UNION { IF c.kind = "raise"
            THEN { [to |-> "abandon", why |-> "error",
                    calls |-> << "get_message_content" >>] }
            ELSE { [to |-> IF e.kind = "raise" THEN "abandon"
                           ELSE IF IsNone(c) \/ IsNone(e) THEN "next"
                           ELSE "system",
                    why |-> IF e.kind = "raise" THEN "error"
                            ELSE IF IsNone(c) \/ IsNone(e) THEN "network"
                            ELSE "none",
                    calls |-> << "get_message_content", "get_sender_email" >>] :
                   e \in GmailCall("get_sender_email", get_sender_email(m)) } :
            c \in GmailCall("get_message_content", get_message_content(m)) }

\* the outcomes outs of a check, reached after the mailbox calls made
After(made, outs) ==
    { [o EXCEPT !.calls = made \o @] : o \in outs }

\* variant: the `continue` is missing
skip_if_Never(rejected, outcome, otherwise) ==
    otherwise

\* if <rejected>: print(...); continue
skip_if(rejected, outcome, otherwise) ==
    IF rejected THEN {outcome} ELSE otherwise

\* lines 252-279 for candidate m: the staleness check, the eligibility
\* check, the content and sender fetch; every outcome says where the worker
\* goes, why, and which mailbox calls it has made
HeaderFetchOutcomes(m) ==
    UNION { IF ts.kind = "raise"
            THEN { [to |-> "abandon", why |-> "error",
                    calls |-> << "get_message_timestamp" >>] }
            ELSE skip_if(is_old_message(ts, server_start_time),
                         [to |-> "next", why |-> "old",
                          calls |-> << "get_message_timestamp" >>],
                   UNION { skip_if(~v.check.valid,
                                   [to |-> "next", why |-> "invalid",
                                    calls |-> << "get_message_timestamp" >> \o v.calls],
                                   After(<< "get_message_timestamp" >> \o v.calls,
                                         ContentOutcomes(m))) :
                           v \in ValidOutcomes(m) }) :
            ts \in GmailCall("get_message_timestamp", get_message_timestamp(m)) }

\* variant: a candidate that is skipped is recorded as well
rejected_is_recorded_Always(ids, message_id) ==
    ids \cup {message_id}

\* print(...); continue (lines 249-302): processed_messages is left as it is
rejected_is_recorded(ids, message_id) ==
    ids

\* the outcome of the processed check of lines 247-250 when it skips
ALREADY_PROCESSED ==
    [to |-> "next", why |-> "processed", calls |-> <<>>]

\* lines 246-279 for candidate m: the processed check, then the fetches
HeaderGateOutcomes(m) ==
    skip_if(m \in processed_messages, ALREADY_PROCESSED, HeaderFetchOutcomes(m))

\* what the worker does on outcome o of lines 246-279
HeaderGateTo(t, o) ==
    /\ tasks[t].pc = "gate"
    /\ tasks' = [tasks EXCEPT ![t] =
            IF o.to = "abandon" THEN Abandon(@)
            ELSE IF o.to = "next" THEN Advance(@)
            ELSE [@ EXCEPT !.pc = "system"]]
    /\ processed_messages' = IF o.to = "next" /\ o.why # "processed"
                             THEN rejected_is_recorded(processed_messages, Current(t))
                             ELSE processed_messages
    /\ UNCHANGED <<processed_history_ids, sent_message_ids, last_cleanup_time,
                   server_start_time, now, mailbox, agent_calls, resolutions,
                   evictions, retry, probe>>

HeaderGate(t) ==
    /\ tasks[t].pc = "gate"
    /\ \E o \in HeaderGateOutcomes(Current(t)) : HeaderGateTo(t, o)

\* lines 281-302 for candidate m: the system-generated check against the
\* sent ids read at line 91, the subject fetch, the empty-content check
SystemGateOutcomesGiven(m, sent_ids) ==
    skip_if(is_system_generated_email(get_message_content(m), get_sender_email(m), m,
                                      sent_ids).is_system,
            [to |-> "next", why |-> "system", calls |-> <<>>],
      UNION { IF j.kind = "raise"
              THEN { [to |-> "abandon", why |-> "error", calls |-> << "get_subject" >>] }
              ELSE skip_if(IsNone(j),
                           [to |-> "next", why |-> "nosubject", calls |-> << "get_subject" >>],
                   skip_if(strip(get_message_content(m)) = "",
                           [to |-> "next", why |-> "empty", calls |-> << "get_subject" >>],
                           { [to |-> "claim", why |-> "none",
                              calls |-> << "get_subject" >>] })) :
              j \in GmailCall("get_subject", get_subject(m)) })

\* ... with the sent ids as they are when the check is made
SystemGateOutcomes(m) ==
    SystemGateOutcomesGiven(m, sent_message_ids)

\* what the worker does on outcome o of lines 281-302
SystemGateTo(t, o) ==
    /\ tasks[t].pc = "system"
    /\ tasks' = [tasks EXCEPT ![t] =
            IF o.to = "abandon" THEN Abandon(@)
            ELSE IF o.to = "next" THEN Advance(@)
            ELSE [@ EXCEPT !.pc = "claim"]]
    /\ processed_messages' = IF o.to = "next"
                             THEN rejected_is_recorded(processed_messages, Current(t))
                             ELSE processed_messages
    /\ UNCHANGED <<processed_history_ids, sent_message_ids, last_cleanup_time,
                   server_start_time, now, mailbox, agent_calls, resolutions,
                   evictions, retry, probe>>

SystemGate(t) ==
    /\ tasks[t].pc = "system"
    /\ \E o \in SystemGateOutcomes(Current(t)) : SystemGateTo(t, o)

\* variant: the message id is not added
mark_processed_Skip(ids, message_id) ==
    ids

\* with self.processed_messages_lock: self.processed_messages.add(message_id)
mark_processed(ids, message_id) ==
    ids \cup {message_id}

\* variant: no acknowledgment, straight on to the agent
after_claim_NoAck(th) ==
    "agent"

\* if thread_id: send the acknowledgment (line 318), else on to the agent
after_claim(th) ==
    IF TruthyStr(th) THEN "ack" ELSE "agent"

\* lines 308-315: mark as processed under the lock, then fetch the thread id,
\* which comes back as th
ClaimWith(t, th) ==
    /\ tasks[t].pc = "claim"
    /\ processed_messages' = mark_processed(processed_messages, Current(t))
    /\ tasks' = [tasks EXCEPT ![t] =
            IF th.kind = "raise" THEN Abandon(@)
            ELSE [@ EXCEPT !.thread_id = th,
                           !.pc = after_claim(th)]]
    /\ UNCHANGED <<processed_history_ids, sent_message_ids, last_cleanup_time,
                   server_start_time, now, mailbox, agent_calls, resolutions, evictions,
                   retry, probe>>

Claim(t) ==
    /\ tasks[t].pc = "claim"
    /\ \E th \in GmailCall("get_thread_id", get_thread_id(Current(t))) : ClaimWith(t, th)

\* the reply a task sends for its current candidate
Reply(t, body) ==
    send_reply_email(tasks[t].thread_id.val, get_sender_email(Current(t)),
                     get_subject(Current(t)), body)

\* what retry_gmail_operation(send_reply_email(...)) can give: the id of the
\* new message, None, or an exception
SendResults ==
    GmailCall("send_reply_email", Len(mailbox) + 1)

\* retry_gmail_operation(send_reply_email(...)) gives res: with an id the message
\* is in the mailbox and the task goes to `recorded` to track it; with None it
\* goes to `unsent`; an exception goes to `raised` ("done" abandons the
\* notification).
SendWith(t, res, body, recorded, unsent, raised) ==
    /\ IF TruthyNum(res)
       THEN /\ mailbox' = Append(mailbox, Reply(t, body))
            /\ agent_calls' = Append(agent_calls, 0)
       ELSE UNCHANGED <<mailbox, agent_calls>>
    /\ tasks' = [tasks EXCEPT ![t] =
            IF res.kind = "raise"
            THEN IF raised = "done" THEN Abandon(@) ELSE [@ EXCEPT !.pc = raised]
            ELSE IF TruthyNum(res) THEN [@ EXCEPT !.pc = recorded, !.pending = res.val]
            ELSE IF unsent = "next" THEN Advance(@)
            ELSE IF unsent = "done" THEN Finish(@)
            ELSE [@ EXCEPT !.pc = unsent]]

\* with self.sent_message_ids_lock: self.sent_message_ids.add(<id>)
Record(t, from, to) ==
    /\ tasks[t].pc = from
    /\ sent_message_ids' = sent_message_ids \cup {tasks[t].pending}
    /\ tasks' = [tasks EXCEPT ![t] =
            IF to = "next" THEN Advance(@)
            ELSE [@ EXCEPT !.pc = to, !.pending = 0]]
    /\ UNCHANGED <<processed_messages, processed_history_ids, last_cleanup_time,
                   server_start_time, now, mailbox, agent_calls, resolutions, evictions,
                   retry, probe>>

\* variant: an acknowledgment that could not be sent ends the notification
after_unsent_ack_Stop ==
    "done"

\* else: print("Failed to send acknowledgment email") (lines 329-330): on to
\* the agent
after_unsent_ack ==
    "agent"

\* lines 317-323: send the acknowledgment; the send gives res
AckWith(t, res) ==
    /\ tasks[t].pc = "ack"
    /\ SendWith(t, res, "ack", "ack_record", after_unsent_ack, "done")
    /\ UNCHANGED <<ledgerVars, server_start_time, now, resolutions, evictions, retry, probe>>

Ack(t) ==
    /\ tasks[t].pc = "ack"
    /\ \E res \in SendResults : AckWith(t, res)

\* lines 324-328
AckRecord(t) ==
    Record(t, "ack_record", "agent")

\* line 356: claude_service.process_email_request_streaming(...) is called
AgentInvoke(t) ==
    /\ tasks[t].pc = "agent"
    /\ agent_calls' = [agent_calls EXCEPT ![Current(t)] = @ + 1]
    /\ tasks' = [tasks EXCEPT ![t].pc = "running", ![t].updates = <<>>]
    /\ UNCHANGED <<ledgerVars, server_start_time, now, mailbox, resolutions, evictions,
                   retry, probe>>

\* if thread_id and len(update_text) > 50: if len(progress_updates) % 3 == 0
progress_due(thread_id, updates, update_text) ==
    /\ TruthyStr(thread_id)
    /\ Len(update_text) > PROGRESS_MIN_LENGTH
    /\ Len(updates) % PROGRESS_EVERY = 0

\* progress_callback(update_text), lines 336-354; an exception of the callback
\* ends the session, which the handler sees as a failed invocation
AgentChunkWith(t, c, res) ==
    /\ tasks[t].pc = "running"
    /\ Len(tasks[t].updates) < MaxChunks
    /\ LET ups == Append(tasks[t].updates, c) IN
        IF progress_due(tasks[t].thread_id, ups, c)
        THEN /\ IF TruthyNum(res)
                THEN /\ mailbox' = Append(mailbox, Reply(t, "Progress update:\n\n" \o c))
                     /\ agent_calls' = Append(agent_calls, 0)
                ELSE UNCHANGED <<mailbox, agent_calls>>
             /\ tasks' = [tasks EXCEPT ![t].updates = ups,
                             ![t].pending = IF TruthyNum(res) THEN res.val ELSE 0,
                             ![t].pc = IF res.kind = "raise" THEN "error"
                                       ELSE IF TruthyNum(res) THEN "progress_record"
                                       ELSE "running"]
        ELSE /\ tasks' = [tasks EXCEPT ![t].updates = ups]
             /\ UNCHANGED <<mailbox, agent_calls>>
    /\ UNCHANGED <<ledgerVars, server_start_time, now, resolutions, evictions, retry, probe>>

AgentChunk(t) ==
    /\ tasks[t].pc = "running"
    /\ Len(tasks[t].updates) < MaxChunks
    /\ \E c \in Chunks : \E res \in SendResults : AgentChunkWith(t, c, res)

\* lines 350-354
ProgressRecord(t) ==
    Record(t, "progress_record", "running")

RECURSIVE join(_)
\* '\n'.join(parts)
join(parts) ==
    IF parts = <<>> THEN ""
    ELSE IF Len(parts) = 1 THEN parts[1]
    ELSE parts[1] \o "\n" \o join(Tail(parts))

\* process_email_request_streaming returns (claude_service.py line 230)
response_text(updates) ==
    IF updates # <<>> THEN join(updates) ELSE DEFAULT_RESPONSE

\* variant: the final reply is sent whatever the thread id is
final_reply_due_Always(thread_id, response) ==
    TRUE

\* if thread_id and response: (line 365)
final_reply_due(thread_id, response) ==
    TruthyStr(thread_id) /\ response # ""

\* lines 356-377: the agent returns; the final reply is sent if there is a
\* thread id and a response; an exception of the send is caught at line 379
AgentReturnWith(t, res) ==
    /\ tasks[t].pc = "running"
    /\ IF final_reply_due(tasks[t].thread_id, response_text(tasks[t].updates))
       THEN SendWith(t, res, "Task completed!\n\n" \o response_text(tasks[t].updates),
                     "final_record", "next", "error")
       ELSE /\ tasks' = [tasks EXCEPT ![t] = Advance(@)]
            /\ UNCHANGED <<mailbox, agent_calls>>
    /\ UNCHANGED <<ledgerVars, server_start_time, now, resolutions, evictions, retry, probe>>

AgentReturn(t) ==
    /\ tasks[t].pc = "running"
    /\ \E res \in SendResults : AgentReturnWith(t, res)

\* variant: after the final reply is tracked the handler goes on to the error
\* reply
FinalRecord_ThenError(t) ==
    Record(t, "final_record", "error")

\* lines 371-375
FinalRecord(t) ==
    Record(t, "final_record", "next")

\* process_email_request_streaming raises (claude_service.py lines 237-240)
AgentRaise(t) ==
    /\ tasks[t].pc = "running"
    /\ tasks' = [tasks EXCEPT ![t].pc = "error"]
    /\ UNCHANGED <<ledgerVars, server_start_time, now, mailbox, agent_calls, resolutions,
                   evictions, retry, probe>>

\* lines 379-396: the error reply; an exception of this send reaches line 398
ErrorReplyWith(t, res) ==
    /\ tasks[t].pc = "error"
    /\ IF TruthyStr(tasks[t].thread_id)
       THEN SendWith(t, res, "Claude processing failed with error: " \o AGENT_ERROR_TEXT,
                     "error_record", "next", "done")
       ELSE /\ tasks' = [tasks EXCEPT ![t] = Advance(@)]
            /\ UNCHANGED <<mailbox, agent_calls>>
    /\ UNCHANGED <<ledgerVars, server_start_time, now, resolutions, evictions, retry, probe>>

ErrorReply(t) ==
    /\ tasks[t].pc = "error"
    /\ \E res \in SendResults : ErrorReplyWith(t, res)

\* lines 390-394
ErrorRecord(t) ==
    Record(t, "error_record", "next")

(***************************************************************************)
(* Specifications                                                          *)
(***************************************************************************)
\* no worker has done anything, no envelope has been received
InitObservers ==
    /\ trace = <<>>
    /\ transport = <<>>
    /\ locks = [l \in LOCKS |-> 0]
    /\ left_block = {}
    /\ streaming_pull_future = "running"

Init ==
    /\ InitLedgerFresh
    /\ InitRest
    /\ retry = Idle
    /\ probe = Idle
    /\ InitObservers

InitAged ==
    /\ InitLedgerAged
    /\ InitRest
    /\ retry = Idle
    /\ probe = Idle
    /\ InitObservers

\* the slots of the tasks a run can have
TaskIds ==
    1..MaxDeliveries

Next ==
    \/ Tick /\ UNCHANGED observerVars
    \/ \E h \in HistoryIds : Deliver(h) /\ UNCHANGED observerVars
    \/ \E t \in TaskIds : t <= Len(tasks) /\ Start(t) /\ UNCHANGED observerVars
    \/ \E t \in TaskIds : t <= Len(tasks) /\ CleanupMessages(t) /\ UNCHANGED observerVars
    \/ \E t \in TaskIds : t <= Len(tasks) /\ CleanupHistory(t) /\ UNCHANGED observerVars
    \/ \E t \in TaskIds : t <= Len(tasks) /\ CleanupSent(t) /\ UNCHANGED observerVars
    \/ \E t \in TaskIds : t <= Len(tasks) /\ CursorGate(t) /\ UNCHANGED observerVars
    \/ \E t \in TaskIds : t <= Len(tasks) /\ Resolve(t) /\ UNCHANGED observerVars
    \/ \E t \in TaskIds : t <= Len(tasks) /\ HeaderGate(t) /\ UNCHANGED observerVars
    \/ \E t \in TaskIds : t <= Len(tasks) /\ SystemGate(t) /\ UNCHANGED observerVars
    \/ \E t \in TaskIds : t <= Len(tasks) /\ Claim(t) /\ UNCHANGED observerVars
    \/ \E t \in TaskIds : t <= Len(tasks) /\ Ack(t) /\ UNCHANGED observerVars
    \/ \E t \in TaskIds : t <= Len(tasks) /\ AckRecord(t) /\ UNCHANGED observerVars
    \/ \E t \in TaskIds : t <= Len(tasks) /\ AgentInvoke(t) /\ UNCHANGED observerVars
    \/ \E t \in TaskIds : t <= Len(tasks) /\ AgentChunk(t) /\ UNCHANGED observerVars
    \/ \E t \in TaskIds : t <= Len(tasks) /\ ProgressRecord(t) /\ UNCHANGED observerVars
    \/ \E t \in TaskIds : t <= Len(tasks) /\ AgentReturn(t) /\ UNCHANGED observerVars
    \/ \E t \in TaskIds : t <= Len(tasks) /\ FinalRecord(t) /\ UNCHANGED observerVars
    \/ \E t \in TaskIds : t <= Len(tasks) /\ AgentRaise(t) /\ UNCHANGED observerVars
    \/ \E t \in TaskIds : t <= Len(tasks) /\ ErrorReply(t) /\ UNCHANGED observerVars
    \/ \E t \in TaskIds : t <= Len(tasks) /\ ErrorRecord(t) /\ UNCHANGED observerVars

Spec ==
    Init /\ [][Next]_vars

SpecAged ==
    InitAged /\ [][Next]_vars

(***************************************************************************)
(* Properties of the pipeline                                              *)
(***************************************************************************)
MessageIds ==
    1..Len(mailbox)

\* C1: for every message id, however many notifications with distinct
\* history ids resolve to it, concurrently or one after the other, the agent is
\* invoked at most once.
C1_AgentInvokedAtMostOnce ==
    \A m \in MessageIds : agent_calls[m] <= 1

\* C2 as stated: a history id delivered twice, concurrently or one after the
\* other, has its candidate resolution dispatched at most once.
C2_ResolvedAtMostOnce ==
    \A h \in HistoryIds : resolutions[h] <= 1

\* C2 amended: a history id has its candidate resolution dispatched at most
\* once more than the number of times cleanup has dropped it from
\* processed_history_ids; while it stays in the set every further delivery
\* ends at the cursor gate before any mailbox call.
C2_ResolvedOncePerClaim ==
    \A h \in HistoryIds : resolutions[h] <= 1 + evictions[h]

\* two deliveries of one history id have both ended, after one resolution
C2_Witness ==
    /\ Len(tasks) = 2
    /\ tasks[1].history_id = tasks[2].history_id
    /\ tasks[1].pc = "done"
    /\ tasks[2].pc = "done"
    /\ resolutions[tasks[1].history_id] = 1
    /\ evictions[tasks[1].history_id] = 0

\* C3: no reply sent by the service (acknowledgment, progress, final, error)
\* ever reaches the agent, whenever it turns up as a candidate, recorded in
\* sent_message_ids or not.
C3_NoSelfLoop ==
    \A m \in MessageIds : mailbox[m].by = "system" => agent_calls[m] = 0

\* a notification has resolved to a reply whose id is not yet recorded in
\* sent_message_ids
C3_Witness ==
    \E t \in 1..Len(tasks) :
        /\ tasks[t].pc = "gate"
        /\ mailbox[Current(t)].by = "system"
        /\ Current(t) \notin sent_message_ids

\* C4: a message whose date is strictly before server_start_time is never
\* handed to the agent, whatever else holds of it and whatever its timestamp
\* fetch returned.
C4_StaleNeverInvoked ==
    \A m \in MessageIds :
        get_message_timestamp(m) < server_start_time => agent_calls[m] = 0

\* C5: a candidate whose timestamp, as fetched, is equal to or later than
\* server_start_time is not skipped as too old: no outcome of the gate is the
\* staleness skip.
C5_FreshNeverSkippedAsOld ==
    \A t \in 1..Len(tasks) :
        (/\ tasks[t].pc = "gate"
         /\ get_message_timestamp(Current(t)) >= server_start_time)
        => /\ \A ts \in GmailCall("get_message_timestamp", get_message_timestamp(Current(t))) :
                ts.kind = "value" => ~is_old_message(ts, server_start_time)
           /\ \A o \in HeaderGateOutcomes(Current(t)) : o.why # "old"

\* a candidate dated in the very second of the server start has gone through
\* the staleness check and the eligibility check
C5_Witness ==
    \E t \in 1..Len(tasks) :
        /\ tasks[t].pc = "system"
        /\ get_message_timestamp(Current(t)) = server_start_time

\* C6 as stated: once a cleanup has run, none of the three sets exceeds its
\* limit in any later state.
C6_WithinLimitsAfterCleanup ==
    last_cleanup_time > server_start_time
    => /\ Cardinality(processed_messages) <= MAX_PROCESSED
       /\ Cardinality(processed_history_ids) <= MAX_HISTORY
       /\ Cardinality(sent_message_ids) <= MAX_SENT

\* C6 amended: each set is within its limit at the moment the cleanup step
\* that trims it completes; between cleanups the sets grow with every id
\* added.
C6_WithinLimitsWhenTrimmed ==
    [][\A t \in 1..Len(tasks) :
        /\ (tasks[t].pc = "cleanup" /\ tasks'[t].pc = "cleanup_history")
            => Cardinality(processed_messages') <= MAX_PROCESSED
        /\ (tasks[t].pc = "cleanup_history" /\ tasks'[t].pc = "cleanup_sent")
            => Cardinality(processed_history_ids') <= MAX_HISTORY
        /\ (tasks[t].pc = "cleanup_sent" /\ tasks'[t].pc = "cursor")
            => Cardinality(sent_message_ids') <= MAX_SENT]_vars

\* a cleanup has cut processed_history_ids down to the size it keeps
C6_Witness ==
    \E t \in 1..Len(tasks) :
        /\ tasks[t].pc = "cleanup_sent"
        /\ Cardinality(processed_history_ids) = KEEP_HISTORY

(***************************************************************************)
(* The retry wrapper on its own: retry_gmail_operation applied to every    *)
(* operation of RetryLen calls, with every max_retries up to RetryLen      *)
(***************************************************************************)
\* what one call of an operation may do
CallOutcomes ==
    {Value("x"), NoneResult, Raise("SSLError"), Raise("HttpError"), Raise("OSError"),
     Raise("KeyError")}

RetryDelays ==
    {1, DEFAULT_DELAY}

InitRetry ==
    /\ InitLedgerFresh
    /\ InitRest
    /\ probe = Idle
    /\ InitObservers
    /\ \E operation \in [1..RetryLen -> CallOutcomes], max_retries \in 0..RetryLen,
          delay \in RetryDelays :
        retry = [phase |-> "armed", operation |-> operation,
                 max_retries |-> max_retries, delay |-> delay]

\* self.retry_gmail_operation(operation, max_retries, delay) runs to its end
RetryCall ==
    /\ retry.phase = "armed"
    /\ retry' = [phase |-> "returned", operation |-> retry.operation,
                 max_retries |-> retry.max_retries, delay |-> retry.delay,
                 out |-> retry_gmail_operation(retry.operation, retry.max_retries,
                                               retry.delay)]
    /\ UNCHANGED <<mainVars, probe, observerVars>>

NextRetry ==
    RetryCall

SpecRetry ==
    InitRetry /\ [][NextRetry]_vars

\* the calls of the operation that the wrapper can make
Attempts ==
    1..retry.max_retries

\* call i of the operation raises an error of the class line 78 catches
TransientAt(i) ==
    /\ retry.operation[i].kind = "raise"
    /\ retry.operation[i].exc \in {"SSLError", "HttpError", "ConnectionError", "OSError"}

\* C7: an operation that raises a transient error on every call is invoked
\* exactly max_retries times, and the wrapper then returns None instead of
\* raising.
C7_ExhaustionReturnsNone ==
    (/\ retry.phase = "returned"
     /\ \A i \in Attempts : TransientAt(i))
    => /\ retry.out.calls = retry.max_retries
       /\ retry.out.result = NoneResult

C7_Witness ==
    /\ retry.phase = "returned"
    /\ retry.max_retries = DEFAULT_MAX_RETRIES
    /\ \A i \in Attempts : TransientAt(i)
    /\ retry.out.calls = DEFAULT_MAX_RETRIES

\* C8: when a call raises an error outside the transient class (the calls
\* before it having raised transient ones), the wrapper raises that error from
\* that call: the operation is not called again, and the only sleeps are the
\* ones that followed the earlier transient failures.
C8_NonTransientPropagates ==
    \A k \in 1..RetryLen :
        (/\ retry.phase = "returned"
         /\ k \in Attempts
         /\ retry.operation[k].kind = "raise"
         /\ ~TransientAt(k)
         /\ \A i \in 1..(k - 1) : TransientAt(i))
        => /\ retry.out.result = retry.operation[k]
           /\ retry.out.calls = k
           /\ Len(retry.out.sleeps) = k - 1

C8_Witness ==
    /\ retry.phase = "returned"
    /\ retry.max_retries = DEFAULT_MAX_RETRIES
    /\ TransientAt(1)
    /\ retry.operation[2] = Raise("KeyError")
    /\ retry.out.result = Raise("KeyError")
    /\ retry.out.calls = 2

\* C31: the wrapper sleeps once after every transient failure that is not the
\* last attempt, and the sleep after attempt a (counted from 0) lasts
\* delay * 2^a; nothing is slept after the last call. With 3 attempts and a
\* delay of 2 an operation that always fails makes the wrapper sleep 2 s,
\* then 4 s.
C31_BackoffSchedule ==
    retry.phase = "returned" =>
        /\ Len(retry.out.sleeps) = IF retry.out.calls = 0 THEN 0 ELSE retry.out.calls - 1
        /\ \A a \in 0..(Len(retry.out.sleeps) - 1) :
              /\ TransientAt(a + 1)
              /\ a + 1 < retry.max_retries
              /\ retry.out.sleeps[a + 1] = retry.delay * (2 ^ a)
        /\ (/\ retry.max_retries = 3
            /\ retry.delay = 2
            /\ \A i \in Attempts : TransientAt(i))
           => retry.out.sleeps = <<2, 4>>

C31_Witness ==
    /\ retry.phase = "returned"
    /\ retry.max_retries = DEFAULT_MAX_RETRIES
    /\ retry.delay = DEFAULT_DELAY
    /\ \A i \in Attempts : TransientAt(i)
    /\ retry.out.result = NoneResult
    /\ retry.out.sleeps = <<2, 4>>

(***************************************************************************)
(* The two filters on their own: is_valid_claude_email and                 *)
(* is_system_generated_email applied to one message of every combination   *)
(* of headers and body below, with its id tracked as sent or not           *)
(***************************************************************************)
FromHeaders ==
    {"jonathanmingli@gmail.com", "Jon <JonathanMingLi@Gmail.com>", "mallory@example.com"}

ToHeaders ==
    {"jonathanmingli@gmail.com", "JONATHANMINGLI@GMAIL.COM", "team@example.com"}

Subjects ==
    {"CLAUDE", "claude", " CLAUDE ", "Re: CLAUDE", "CLAUDE now"}

Bodies ==
    {"ack", "Please ACKnowledge the new report", "do the thing now", "hi there  ",
     "  TASK COMPLETED! see the log", "run tests!", "run tests", "fix the login bug"}

InitFilter ==
    /\ processed_messages = {}
    /\ processed_history_ids = {}
    /\ sent_message_ids \in {{}, {1}}
    /\ last_cleanup_time = START_TIME
    /\ server_start_time = START_TIME
    /\ now = START_TIME
    /\ \E f \in FromHeaders, t \in ToHeaders, j \in Subjects, b \in Bodies :
        mailbox = << Message(f, t, j, b, START_TIME * 1000, "t1", "user") >>
    /\ tasks = <<>>
    /\ agent_calls = [m \in 1..1 |-> 0]
    /\ resolutions = [h \in HistoryIds |-> 0]
    /\ evictions = [h \in HistoryIds |-> 0]
    /\ retry = Idle
    /\ probe = Idle
    /\ InitObservers

\* self.is_valid_claude_email(message_id) on message 1
ProbeValid ==
    /\ probe.phase = "idle"
    /\ \E s \in GmailCall("get_sender_email", get_sender_email(1)),
          r \in GmailCall("get_recipient_email", get_recipient_email(1)),
          j \in GmailCall("get_subject", get_subject(1)) :
        probe' = [phase |-> "valid", sender |-> s, recipient |-> r, subject |-> j,
                  out |-> is_valid_claude_email(s, r, j)]
    /\ UNCHANGED <<mainVars, retry, observerVars>>

\* variant: the check records the id it looked up
sent_after_check_Recorded(ids, message_id) ==
    ids \cup {message_id}

\* with self.sent_message_ids_lock: if message_id in self.sent_message_ids
\* (lines 90-92): the set is read, not written
sent_after_check(ids, message_id) ==
    ids

\* self.is_system_generated_email(message_content, sender_email, message_id) on
\* message 1, and what lines 281-302 do with the candidate
ProbeSystem ==
    /\ probe.phase = "idle"
    /\ probe' = [phase |-> "system",
                 out |-> is_system_generated_email(get_message_content(1),
                                                   get_sender_email(1), 1, sent_message_ids),
                 gate |-> SystemGateOutcomes(1)]
    /\ sent_message_ids' = sent_after_check(sent_message_ids, 1)
    /\ UNCHANGED <<processed_messages, processed_history_ids, last_cleanup_time,
                   server_start_time, now, mailbox, tasks, agent_calls, resolutions,
                   evictions, retry, observerVars>>

NextFilter ==
    \/ ProbeValid
    \/ ProbeSystem

SpecFilter ==
    InitFilter /\ [][NextFilter]_vars

\* C33: evaluating is_valid_claude_email or is_system_generated_email changes
\* none of the three ledger sets and sends nothing (the mailbox holds the same
\* messages afterwards), whatever the message and whatever the fetches give.
C33_FiltersHaveNoSideEffects ==
    [][probe' # probe =>
          /\ processed_messages' = processed_messages
          /\ processed_history_ids' = processed_history_ids
          /\ sent_message_ids' = sent_message_ids
          /\ mailbox' = mailbox]_vars

\* the system-generated check has found the id of the message among the sent
\* ids, and the set still holds exactly that id
C33_Witness ==
    /\ probe.phase = "system"
    /\ probe.out.is_system
    /\ sent_message_ids = {1}
    /\ Len(mailbox) = 1

\* equal when compared case-insensitively
SameIgnoringCase(a, b) ==
    lower(a) = lower(b)

\* the three header values were retrieved
Retrieved ==
    /\ probe.sender.kind = "value"
    /\ probe.recipient.kind = "value"
    /\ probe.subject.kind = "value"

\* C9 as stated: the result is true iff sender and recipient equal the target
\* address and the subject, after trimming surrounding whitespace, equals the
\* required subject, each compared case-insensitively.
C9_EligibleIffTrimmedMatch ==
    (probe.phase = "valid" /\ Retrieved)
    => probe.out.valid =
        (/\ SameIgnoringCase(probe.sender.val, TARGET_ADDRESS)
         /\ SameIgnoringCase(probe.recipient.val, TARGET_ADDRESS)
         /\ SameIgnoringCase(strip(probe.subject.val), REQUIRED_SUBJECT))

\* C9 amended: the result is true iff the three header values were retrieved,
\* sender and recipient equal the target address and the subject as it stands,
\* without trimming, equals the required subject, each compared
\* case-insensitively.
C9_EligibleIffUntrimmedMatch ==
    probe.phase = "valid"
    => probe.out.valid =
        (/\ Retrieved
         /\ SameIgnoringCase(probe.sender.val, TARGET_ADDRESS)
         /\ SameIgnoringCase(probe.recipient.val, TARGET_ADDRESS)
         /\ SameIgnoringCase(probe.subject.val, REQUIRED_SUBJECT))

C9_Witness ==
    /\ probe.phase = "valid"
    /\ Retrieved
    /\ SameIgnoringCase(probe.sender.val, TARGET_ADDRESS)
    /\ SameIgnoringCase(probe.recipient.val, TARGET_ADDRESS)
    /\ probe.subject.val = " CLAUDE "
    /\ ~probe.out.valid

\* the body as the filter looks at it: lower-cased and trimmed
ProbedBody ==
    strip(lower(mailbox[1].body))

\* C10: the result is true iff the message id is in sent_message_ids, or the
\* lower-cased trimmed body contains one of the system markers (compared
\* case-insensitively), or the trimmed body is shorter than 10 characters; a
\* system-generated candidate is skipped, and an untracked body of 'ack' is
\* classified with the marker 'ack' named as the reason.
C10_SystemGeneratedIff ==
    probe.phase = "system"
    => /\ probe.out.is_system =
            (\/ 1 \in sent_message_ids
             \/ \E i \in 1..Len(system_patterns) :
                    contains(ProbedBody, lower(system_patterns[i]))
             \/ Len(ProbedBody) < 10)
       /\ probe.out.is_system
            => probe.gate = {[to |-> "next", why |-> "system", calls |-> <<>>]}
       /\ (mailbox[1].body = "ack" /\ 1 \notin sent_message_ids)
            => probe.out.is_system /\ probe.out.pattern = "ack"

C10_Witness ==
    /\ probe.phase = "system"
    /\ mailbox[1].body = "ack"
    /\ 1 \notin sent_message_ids
    /\ probe.out.pattern = "ack"
    /\ probe.gate = {[to |-> "next", why |-> "system", calls |-> <<>>]}

(***************************************************************************)
(* Observed runs: every step of a worker's candidate loop leaves an entry  *)
(* in trace                                                                *)
(***************************************************************************)
\* one entry of the trace: worker t did op for message m, and it ended as res
Event(t, op, m, res) ==
    [task |-> t, op |-> op, msg |-> m, res |-> res]

\* how a send through the retry wrapper ended
SendEnded(res) ==
    IF res.kind = "raise" THEN "raise"
    ELSE IF TruthyNum(res) THEN "sent"
    ELSE "none"

\* how a gate ended: passed, or the reason of the rejection
GateEnded(o) ==
    IF o.to \in {"system", "claim"} THEN "pass" ELSE o.why

HeaderGateTraced(t) ==
    /\ tasks[t].pc = "gate"
    /\ \E o \in HeaderGateOutcomes(Current(t)) :
        /\ HeaderGateTo(t, o)
        /\ trace' = Append(trace, Event(t, "gate", Current(t), GateEnded(o)))

SystemGateTraced(t) ==
    /\ tasks[t].pc = "system"
    /\ \E o \in SystemGateOutcomes(Current(t)) :
        /\ SystemGateTo(t, o)
        /\ trace' = Append(trace, Event(t, "system", Current(t), GateEnded(o)))

ClaimTraced(t) ==
    /\ tasks[t].pc = "claim"
    /\ \E th \in GmailCall("get_thread_id", get_thread_id(Current(t))) :
        /\ ClaimWith(t, th)
        /\ trace' = Append(trace, Event(t, "mark", Current(t),
                                        IF th.kind = "raise" THEN "raise"
                                        ELSE IF TruthyStr(th) THEN "thread"
                                        ELSE "nothread"))

AckTraced(t) ==
    /\ tasks[t].pc = "ack"
    /\ \E res \in SendResults :
        /\ AckWith(t, res)
        /\ trace' = Append(trace, Event(t, "ack", Current(t), SendEnded(res)))

AgentInvokeTraced(t) ==
    /\ tasks[t].pc = "agent"
    /\ AgentInvoke(t)
    /\ trace' = Append(trace, Event(t, "agent", Current(t), "called"))

AgentChunkTraced(t) ==
    /\ tasks[t].pc = "running"
    /\ Len(tasks[t].updates) < MaxChunks
    /\ \E c \in Chunks : \E res \in SendResults :
        /\ AgentChunkWith(t, c, res)
        /\ trace' = IF progress_due(tasks[t].thread_id, Append(tasks[t].updates, c), c)
                    THEN Append(trace, Event(t, "progress", Current(t), SendEnded(res)))
                    ELSE trace

AgentReturnTraced(t) ==
    /\ tasks[t].pc = "running"
    /\ \E res \in SendResults :
        /\ AgentReturnWith(t, res)
        /\ trace' = Append(trace, Event(t, "final", Current(t),
                                        IF TruthyStr(tasks[t].thread_id)
                                        THEN SendEnded(res) ELSE "nothread"))

AgentRaiseTraced(t) ==
    /\ tasks[t].pc = "running"
    /\ AgentRaise(t)
    /\ trace' = Append(trace, Event(t, "agent_failed", Current(t), "raise"))

ErrorReplyTraced(t) ==
    /\ tasks[t].pc = "error"
    /\ \E res \in SendResults :
        /\ ErrorReplyWith(t, res)
        /\ trace' = Append(trace, Event(t, "error_reply", Current(t),
                                        IF TruthyStr(tasks[t].thread_id)
                                        THEN SendEnded(res) ELSE "nothread"))

(***************************************************************************)
(* One worker on its own: the candidate loop of process_notification over  *)
(* every list of up to MaxBatch candidates                                 *)
(***************************************************************************)
\* candidates in the list one resolution has returned to the worker
MaxBatch ==
    2

\* The mailbox the worker looks at: the two user messages and a third that is
\* eligible by its headers but too short to be a request.
WorkerMailbox ==
    Append(UserMessages,
           Message(TARGET_ADDRESS, TARGET_ADDRESS, "CLAUDE", "run tests",
                   START_TIME * 1000, "t3", "user"))

\* lists of distinct message ids, 1 to MaxBatch long
Batches ==
    UNION { {l \in [1..n -> 1..Len(WorkerMailbox)] : \A a, b \in 1..n : a # b => l[a] # l[b]} :
              n \in 1..MaxBatch }

\* The worker has claimed history id 1 and resolved it to a list of
\* candidates (line 242); an earlier notification may have handled one of them.
InitWorker ==
    /\ processed_messages \in {{}, {Len(WorkerMailbox)}}
    /\ processed_history_ids = {1}
    /\ sent_message_ids = {}
    /\ last_cleanup_time = START_TIME
    /\ server_start_time = START_TIME
    /\ now = START_TIME
    /\ mailbox = WorkerMailbox
    /\ \E l \in Batches :
        tasks = << [NewTask(1) EXCEPT !.pc = "gate", !.current_time = START_TIME,
                                      !.recent = l, !.i = 1] >>
    /\ agent_calls = [m \in 1..Len(WorkerMailbox) |-> 0]
    /\ resolutions = [h \in HistoryIds |-> IF h = 1 THEN 1 ELSE 0]
    /\ evictions = [h \in HistoryIds |-> 0]
    /\ retry = Idle
    /\ probe = Idle
    /\ InitObservers

NextWorker ==
    \/ HeaderGateTraced(1) /\ UNCHANGED <<transport, locks, left_block, streaming_pull_future>>
    \/ SystemGateTraced(1) /\ UNCHANGED <<transport, locks, left_block, streaming_pull_future>>
    \/ ClaimTraced(1) /\ UNCHANGED <<transport, locks, left_block, streaming_pull_future>>
    \/ AckTraced(1) /\ UNCHANGED <<transport, locks, left_block, streaming_pull_future>>
    \/ AckRecord(1) /\ UNCHANGED observerVars
    \/ AgentInvokeTraced(1) /\ UNCHANGED <<transport, locks, left_block, streaming_pull_future>>
    \/ AgentChunkTraced(1) /\ UNCHANGED <<transport, locks, left_block, streaming_pull_future>>
    \/ ProgressRecord(1) /\ UNCHANGED observerVars
    \/ AgentReturnTraced(1) /\ UNCHANGED <<transport, locks, left_block, streaming_pull_future>>
    \/ FinalRecord(1) /\ UNCHANGED observerVars
    \/ AgentRaiseTraced(1) /\ UNCHANGED <<transport, locks, left_block, streaming_pull_future>>
    \/ ErrorReplyTraced(1) /\ UNCHANGED <<transport, locks, left_block, streaming_pull_future>>
    \/ ErrorRecord(1) /\ UNCHANGED observerVars

SpecWorker ==
    InitWorker /\ [][NextWorker]_vars

\* the entries of the trace that worker t left for message m
EventsOf(t, m) ==
    SelectSeq(trace, LAMBDA e : e.task = t /\ e.msg = m)

\* worker t is through with message m
Finished(t, m) ==
    tasks[t].pc = "done" \/ Current(t) # m

\* the three steps of a successful request, in the order of the code
REQUEST_STEPS ==
    << "ack", "agent", "final" >>

\* the operations among REQUEST_STEPS that a sequence of entries shows
StepsIn(evs) ==
    [k \in 1..Len(SelectSeq(evs, LAMBDA e : e.op \in {"ack", "agent", "final"})) |->
        SelectSeq(evs, LAMBDA e : e.op \in {"ack", "agent", "final"})[k].op]

\* no call made for the candidate failed and the agent did not fail
AllSucceeded(evs) ==
    \A k \in 1..Len(evs) : evs[k].res \in {"pass", "thread", "sent", "called"}

\* C11: for a candidate that passed every gate, with every mailbox call and
\* the agent succeeding, the worker sends the acknowledgment, then invokes the
\* agent, then sends the final reply: what it has done so far is always a
\* prefix of that sequence, and the whole of it once it is through with the
\* candidate.
C11_AckThenAgentThenFinal ==
    \A m \in MessageIds :
        LET evs == EventsOf(1, m) IN
        (/\ \E k \in 1..Len(evs) : evs[k].op = "mark"
         /\ AllSucceeded(evs))
        => /\ Len(StepsIn(evs)) <= Len(REQUEST_STEPS)
           /\ StepsIn(evs) = SubSeq(REQUEST_STEPS, 1, Len(StepsIn(evs)))
           /\ Finished(1, m) => StepsIn(evs) = REQUEST_STEPS

\* the worker is through with the first user message (sender and recipient
\* the target address, subject CLAUDE, body "do the thing", received as the
\* server starts): acknowledgment, agent and final reply all succeeded
C11_Witness ==
    /\ Len(tasks) = 1
    /\ Finished(1, 1)
    /\ AllSucceeded(EventsOf(1, 1))
    /\ StepsIn(EventsOf(1, 1)) = REQUEST_STEPS
    /\ get_message_content(1) = "do the thing"

\* the replies worker t has sent for message m, in the order of sending
RepliesSent(t, m) ==
    SelectSeq(EventsOf(t, m),
              LAMBDA e : e.op \in {"ack", "progress", "final", "error_reply"}
                         /\ e.res = "sent")

\* the place of a reply in the handling of a request
ReplyRank(op) ==
    CASE op = "ack" -> 1
      [] op = "progress" -> 2
      [] OTHER -> 3

\* C37: the replies one worker sends for one message come as at most one
\* acknowledgment, then progress replies, then at most one terminal reply:
\* never a final reply and an error reply both, and nothing after the
\* terminal reply.
C37_ReplyOrder ==
    \A m \in MessageIds :
        LET sent == RepliesSent(1, m) IN
        /\ \A a, b \in 1..Len(sent) :
              a < b => /\ ReplyRank(sent[a].op) <= ReplyRank(sent[b].op)
                       /\ ReplyRank(sent[a].op) = ReplyRank(sent[b].op)
                              => sent[a].op = "progress"
        /\ \A a \in 1..Len(sent) :
              sent[a].op \in {"final", "error_reply"} => a = Len(sent)

\* the worker has sent the acknowledgment, a progress reply and the final
\* reply for the first user message
C37_Witness ==
    /\ Len(RepliesSent(1, 1)) = 3
    /\ RepliesSent(1, 1)[1].op = "ack"
    /\ RepliesSent(1, 1)[2].op = "progress"
    /\ RepliesSent(1, 1)[3].op = "final"
    /\ Finished(1, 1)

(***************************************************************************)
(* Notification receiver: decode_notification_data, the Pub/Sub callback   *)
(* and the webhook handler                                                 *)
(***************************************************************************)
\* envelopes the transport hands to the receiver in one run, rejected ones
\* included
MaxEnvelopes ==
    3

\* envelopes whose worker has not finished, or whose answer is still open
MaxInFlight ==
    1

\* number of characters of a payload, padding not counted
PayloadLengths ==
    {78, 79, 80, 81}

\* A payload as the transport carries it: text is what the characters are (a
\* JSON document, base64 with its padding stripped, or neither), inner is
\* what the base64 encodes, length the number of characters.
Payload(text, inner, length, h) ==
    [text |-> text, inner |-> inner, length |-> length, historyId |-> h]

Payloads ==
    { Payload("json", "notification", 80, h) : h \in HistoryIds }
    \cup { Payload("base64", "notification", n, h) : n \in PayloadLengths, h \in HistoryIds }
    \cup { Payload("base64", "other", n, 1) : n \in PayloadLengths }
    \cup { Payload("other", "other", 80, 1) }

\* data += '=' * (4 - missing_padding) (lines 56-58): the length after it
padded_length(length) ==
    IF length % 4 # 0 THEN length + (4 - (length % 4)) ELSE length

\* base64.b64decode(data): unpadded base64 text has no length of 4k + 1
b64decode_ok(data) ==
    /\ data.text = "base64"
    /\ padded_length(data.length) % 4 = 0
    /\ data.length % 4 # 1

\* variant: a payload that does not decode counts as a notification
decode_notification_data_Lenient(data) ==
    Value(data.historyId)

\* decode_notification_data, lines 43-71: json.loads first, then the padded
\* base64 and json.loads of what it encodes; the errors of both are re-raised
decode_notification_data(data) ==
    IF data.text = "json" THEN Value(data.historyId)
    ELSE IF ~b64decode_ok(data) THEN Raise("binascii.Error")
    ELSE IF data.inner = "notification" THEN Value(data.historyId)
    ELSE Raise("JSONDecodeError")

\* One envelope: how it came in, whether its payload decoded ("absent": the
\* request had none), the worker submitted for it (0: none), what the receiver
\* answered (pull: ack or nack, "waiting" until then; webhook: the status of
\* the response), and how the worker's call of process_notification went
\* ("unavailable": returned at line 236, "escaped": an exception reached line
\* 398).
Envelope(mode, decoded, task, verdict, response) ==
    [mode |-> mode, decoded |-> decoded, task |-> task, verdict |-> verdict,
     response |-> response, failure |-> "none"]

\* envelopes whose worker has not finished or whose answer is still open
InFlight ==
    {e \in 1..Len(transport) :
        \/ transport[e].verdict = "waiting"
        \/ (transport[e].task # 0 /\ tasks[transport[e].task].pc # "done")}

\* the service runs in one mode (main.py); the transport hands over the next
\* envelope
ReceiverFree(mode) ==
    /\ Len(transport) < MaxEnvelopes
    /\ Cardinality(InFlight) < MaxInFlight
    /\ \A e \in 1..Len(transport) : transport[e].mode = mode

\* callback, lines 401-410 and 421-423: decode and submit; a failed decode is
\* caught by the outer handler, which nacks
Callback(data) ==
    /\ ReceiverFree("pull")
    /\ LET d == decode_notification_data(data) IN
        IF d.kind = "raise"
        THEN /\ transport' = Append(transport, Envelope("pull", "no", 0, "nack", 0))
             /\ UNCHANGED <<mainVars, retry, probe, trace, locks, left_block, streaming_pull_future>>
        ELSE /\ Deliver(d.val)
             /\ transport' = Append(transport,
                                    Envelope("pull", "yes", Len(tasks) + 1, "waiting", 0))
             /\ UNCHANGED <<trace, locks, left_block, streaming_pull_future>>

\* variant: the callback answers whenever the worker's state suggests it
awaiting_result_Always(envelope) ==
    TRUE

\* the callback of the envelope is inside future.result(timeout=600), line 414:
\* it answers once, on the way out of it
awaiting_result(envelope) ==
    envelope.verdict = "waiting"

\* future.result(timeout=600) returns or re-raises what the worker raised
\* (lines 413-419)
FutureDone(e) ==
    /\ awaiting_result(transport[e])
    /\ transport[e].task # 0
    /\ tasks[transport[e].task].pc \in {"done", "raised"}
    /\ transport' = [transport EXCEPT ![e].verdict =
                        IF tasks[transport[e].task].pc = "done" THEN "ack" ELSE "nack"]
    /\ UNCHANGED <<mainVars, retry, probe, trace, locks, left_block, streaming_pull_future>>

\* future.result(timeout=600) raises TimeoutError: the agent session, the one
\* step that lasts minutes and has no timeout of its own, is still running
FutureTimeout(e) ==
    /\ awaiting_result(transport[e])
    /\ transport[e].task # 0
    /\ tasks[transport[e].task].pc = "running"
    /\ transport' = [transport EXCEPT ![e].verdict = "nack"]
    /\ UNCHANGED <<mainVars, retry, probe, trace, locks, left_block, streaming_pull_future>>

\* what a POST /webhook carries: no JSON body, a body without message.data, or
\* a body whose message.data is a payload
Requests ==
    { [body |-> "empty", data |-> Payload("other", "other", 80, 1)],
      [body |-> "nodata", data |-> Payload("other", "other", 80, 1)] }
    \cup { [body |-> "data", data |-> p] : p \in Payloads }

HTTP_OK ==
    200

HTTP_BAD_REQUEST ==
    400

HTTP_ERROR ==
    500

\* variant: every request is answered with an error
webhook_status_Error(body, d) ==
    HTTP_ERROR

\* the status the handler returns: 400 without a body (line 461), 500 when the
\* decode raised (line 480), 200 otherwise (line 476)
webhook_status(body, d) ==
    IF body = "empty" THEN HTTP_BAD_REQUEST
    ELSE IF body = "data" /\ d.kind = "raise" THEN HTTP_ERROR
    ELSE HTTP_OK

\* webhook, lines 455-480: decode, submit, and the response is returned right
\* after the submit
Webhook(req) ==
    /\ ReceiverFree("webhook")
    /\ LET d == decode_notification_data(req.data) IN
        IF req.body = "data" /\ d.kind # "raise"
        THEN /\ Deliver(d.val)
             /\ transport' = Append(transport,
                                    Envelope("webhook", "yes", Len(tasks) + 1, "none",
                                             webhook_status(req.body, d)))
             /\ UNCHANGED <<trace, locks, left_block, streaming_pull_future>>
        ELSE /\ transport' = Append(transport,
                                    Envelope("webhook",
                                             IF req.body = "data" THEN "no" ELSE "absent",
                                             0, "none", webhook_status(req.body, d)))
             /\ UNCHANGED <<mainVars, retry, probe, trace, locks, left_block, streaming_pull_future>>

\* the envelope worker t was submitted for
EnvelopeOf(t) ==
    CHOOSE e \in 1..Len(transport) : transport[e].task = t

\* the call of process_notification for worker t went as f
Noted(t, f) ==
    IF f = "none" THEN transport
    ELSE [transport EXCEPT ![EnvelopeOf(t)].failure = f]

ResolveNoted(t) ==
    /\ tasks[t].pc = "resolve"
    /\ \E o \in ResolveOutcomes :
        /\ ResolveTo(t, o)
        /\ transport' = Noted(t, IF o.kind = "raise" THEN "escaped"
                                 ELSE IF o.kind = "none" THEN "unavailable"
                                 ELSE "none")

HeaderGateNoted(t) ==
    /\ tasks[t].pc = "gate"
    /\ \E o \in HeaderGateOutcomes(Current(t)) :
        /\ HeaderGateTo(t, o)
        /\ transport' = Noted(t, IF o.to = "abandon" THEN "escaped" ELSE "none")

SystemGateNoted(t) ==
    /\ tasks[t].pc = "system"
    /\ \E o \in SystemGateOutcomes(Current(t)) :
        /\ SystemGateTo(t, o)
        /\ transport' = Noted(t, IF o.to = "abandon" THEN "escaped" ELSE "none")

ClaimNoted(t) ==
    /\ tasks[t].pc = "claim"
    /\ \E th \in GmailCall("get_thread_id", get_thread_id(Current(t))) :
        /\ ClaimWith(t, th)
        /\ transport' = Noted(t, IF th.kind = "raise" THEN "escaped" ELSE "none")

AckNoted(t) ==
    /\ tasks[t].pc = "ack"
    /\ \E res \in SendResults :
        /\ AckWith(t, res)
        /\ transport' = Noted(t, IF res.kind = "raise" THEN "escaped" ELSE "none")

ErrorReplyNoted(t) ==
    /\ tasks[t].pc = "error"
    /\ \E res \in SendResults :
        /\ ErrorReplyWith(t, res)
        /\ transport' = Noted(t, IF TruthyStr(tasks[t].thread_id) /\ res.kind = "raise"
                                 THEN "escaped" ELSE "none")

EnvelopeIds ==
    1..MaxEnvelopes

NextReceiver ==
    \/ Tick /\ UNCHANGED observerVars
    \/ \E data \in Payloads : Callback(data)
    \/ \E req \in Requests : Webhook(req)
    \/ \E e \in EnvelopeIds : e <= Len(transport) /\ FutureDone(e)
    \/ \E e \in EnvelopeIds : e <= Len(transport) /\ FutureTimeout(e)
    \/ \E t \in TaskIds : t <= Len(tasks) /\ Start(t) /\ UNCHANGED observerVars
    \/ \E t \in TaskIds : t <= Len(tasks) /\ CleanupMessages(t) /\ UNCHANGED observerVars
    \/ \E t \in TaskIds : t <= Len(tasks) /\ CleanupHistory(t) /\ UNCHANGED observerVars
    \/ \E t \in TaskIds : t <= Len(tasks) /\ CleanupSent(t) /\ UNCHANGED observerVars
    \/ \E t \in TaskIds : t <= Len(tasks) /\ CursorGate(t) /\ UNCHANGED observerVars
    \/ \E t \in TaskIds : t <= Len(tasks) /\ ResolveNoted(t) /\ UNCHANGED <<trace, locks, left_block, streaming_pull_future>>
    \/ \E t \in TaskIds : t <= Len(tasks) /\ HeaderGateNoted(t) /\ UNCHANGED <<trace, locks, left_block, streaming_pull_future>>
    \/ \E t \in TaskIds : t <= Len(tasks) /\ SystemGateNoted(t) /\ UNCHANGED <<trace, locks, left_block, streaming_pull_future>>
    \/ \E t \in TaskIds : t <= Len(tasks) /\ ClaimNoted(t) /\ UNCHANGED <<trace, locks, left_block, streaming_pull_future>>
    \/ \E t \in TaskIds : t <= Len(tasks) /\ AckNoted(t) /\ UNCHANGED <<trace, locks, left_block, streaming_pull_future>>
    \/ \E t \in TaskIds : t <= Len(tasks) /\ AckRecord(t) /\ UNCHANGED observerVars
    \/ \E t \in TaskIds : t <= Len(tasks) /\ AgentInvoke(t) /\ UNCHANGED observerVars
    \/ \E t \in TaskIds : t <= Len(tasks) /\ AgentChunk(t) /\ UNCHANGED observerVars
    \/ \E t \in TaskIds : t <= Len(tasks) /\ ProgressRecord(t) /\ UNCHANGED observerVars
    \/ \E t \in TaskIds : t <= Len(tasks) /\ AgentReturn(t) /\ UNCHANGED observerVars
    \/ \E t \in TaskIds : t <= Len(tasks) /\ FinalRecord(t) /\ UNCHANGED observerVars
    \/ \E t \in TaskIds : t <= Len(tasks) /\ AgentRaise(t) /\ UNCHANGED observerVars
    \/ \E t \in TaskIds : t <= Len(tasks) /\ ErrorReplyNoted(t) /\ UNCHANGED <<trace, locks, left_block, streaming_pull_future>>
    \/ \E t \in TaskIds : t <= Len(tasks) /\ ErrorRecord(t) /\ UNCHANGED observerVars

SpecReceiver ==
    Init /\ [][NextReceiver]_vars

\* the envelopes received so far
Envelopes ==
    1..Len(transport)

\* C12: in pull mode an envelope whose dispatch failed (candidate resolution
\* unavailable, or an exception during processing) is never acknowledged.
C12_FailedDispatchNeverAcked ==
    \A e \in Envelopes :
        (transport[e].mode = "pull" /\ transport[e].failure # "none")
        => transport[e].verdict # "ack"

\* C35: a pull envelope gets one answer: an envelope that failed to decode is
\* nacked on the spot, a dispatched one is unanswered until its callback
\* leaves future.result and is then acked (the worker returned) or nacked
\* (the worker raised, or the wait timed out), and an answer once given is
\* never followed by another.
C35_OneSignalPerEnvelope ==
    /\ [][\A e \in Envelopes :
            transport[e].mode = "pull" =>
                /\ transport[e].verdict # "waiting"
                      => transport'[e].verdict = transport[e].verdict
                /\ (transport[e].verdict = "waiting" /\ transport'[e].verdict = "ack")
                      => tasks[transport[e].task].pc = "done"]_vars
    /\ [](\A e \in Envelopes :
            transport[e].mode = "pull" =>
                /\ transport[e].verdict \in {"waiting", "ack", "nack"}
                /\ transport[e].decoded = "no" => transport[e].verdict = "nack"
                /\ transport[e].verdict = "waiting" => transport[e].task # 0)

\* an envelope nacked at the timeout whose worker has since returned without
\* an error: the nack stands
C35_Witness ==
    \E e \in Envelopes :
        /\ transport[e].mode = "pull"
        /\ transport[e].decoded = "yes"
        /\ transport[e].verdict = "nack"
        /\ transport[e].failure = "none"
        /\ tasks[transport[e].task].pc = "done"
        /\ agent_calls[1] > 0

\* C13: an envelope whose candidate resolution was unavailable is not
\* acknowledged, and when the same history id has been delivered again and that
\* worker is through, the resolution has been attempted again.
C13_UnavailableIsRetryable ==
    \A e \in Envelopes :
        (transport[e].mode = "pull" /\ transport[e].failure = "unavailable")
        => /\ transport[e].verdict # "ack"
           /\ \A f \in Envelopes :
                (/\ f > e
                 /\ transport[f].task # 0
                 /\ tasks[transport[f].task].history_id = tasks[transport[e].task].history_id
                 /\ tasks[transport[f].task].pc = "done")
                => resolutions[tasks[transport[e].task].history_id] >= 2

\* C14: no exception raised while a notification is processed leaves
\* process_notification or the callback: no worker ends by raising, a worker
\* whose processing hit an exception has returned and its pool thread is free,
\* and an envelope that failed to decode has its answer.
C14_NoExceptionEscapes ==
    \A e \in Envelopes :
        /\ transport[e].task # 0
            => /\ tasks[transport[e].task].pc # "raised"
               /\ transport[e].failure = "escaped"
                    => /\ tasks[transport[e].task].pc = "done"
                       /\ transport[e].task \notin Running
        /\ (transport[e].mode = "pull" /\ transport[e].decoded = "no")
            => transport[e].verdict = "nack"

\* after a worker whose processing hit an exception, the pull receiver has
\* dispatched a later notification and its worker is at work
C14_Witness ==
    \E e, f \in Envelopes :
        /\ e < f
        /\ transport[e].mode = "pull"
        /\ transport[e].failure = "escaped"
        /\ transport[f].task # 0
        /\ tasks[transport[f].task].pc \notin {"queued", "done"}

(***************************************************************************)
(* Redelivery: notifications handled one after the other, over a ledger    *)
(* whose processed_messages set earlier traffic has filled; the trace      *)
(* keeps the gates, the claims, the agent calls, their failures and the    *)
(* message ids a cleanup drops                                             *)
(***************************************************************************)
RECURSIVE EvictedEvents(_, _, _, _)
\* one entry for every message id up to m that the trim by worker t dropped
EvictedEvents(t, before, after, m) ==
    IF m = 0 THEN <<>>
    ELSE EvictedEvents(t, before, after, m - 1)
         \o (IF m \in before /\ m \notin after
             THEN << Event(t, "evicted", m, "dropped") >> ELSE <<>>)

CleanupMessagesTraced(t) ==
    /\ CleanupMessages(t)
    /\ trace' = trace \o EvictedEvents(t, processed_messages, processed_messages',
                                       Len(mailbox))

\* processed_messages is at its limit; the other two sets were cut down by the
\* last cleanup
InitRedelivery ==
    /\ processed_messages = OldIds(MAX_PROCESSED)
    /\ processed_history_ids = OldIds(KEEP_HISTORY)
    /\ sent_message_ids = OldIds(KEEP_SENT)
    /\ InitRest
    /\ retry = Idle
    /\ probe = Idle
    /\ InitObservers

\* the transport hands over the next envelope once the worker of the one
\* before has returned
DeliverNext(h) ==
    /\ \A t \in 1..Len(tasks) : tasks[t].pc = "done"
    /\ Deliver(h)

NextRedelivery ==
    \/ Tick /\ UNCHANGED observerVars
    \/ \E h \in HistoryIds : DeliverNext(h) /\ UNCHANGED observerVars
    \/ \E t \in TaskIds : t <= Len(tasks) /\ Start(t) /\ UNCHANGED observerVars
    \/ \E t \in TaskIds : t <= Len(tasks) /\ CleanupMessagesTraced(t) /\ UNCHANGED <<transport, locks, left_block, streaming_pull_future>>
    \/ \E t \in TaskIds : t <= Len(tasks) /\ CleanupHistory(t) /\ UNCHANGED observerVars
    \/ \E t \in TaskIds : t <= Len(tasks) /\ CleanupSent(t) /\ UNCHANGED observerVars
    \/ \E t \in TaskIds : t <= Len(tasks) /\ CursorGate(t) /\ UNCHANGED observerVars
    \/ \E t \in TaskIds : t <= Len(tasks) /\ Resolve(t) /\ UNCHANGED observerVars
    \/ \E t \in TaskIds : t <= Len(tasks) /\ HeaderGateTraced(t) /\ UNCHANGED <<transport, locks, left_block, streaming_pull_future>>
    \/ \E t \in TaskIds : t <= Len(tasks) /\ SystemGateTraced(t) /\ UNCHANGED <<transport, locks, left_block, streaming_pull_future>>
    \/ \E t \in TaskIds : t <= Len(tasks) /\ ClaimTraced(t) /\ UNCHANGED <<transport, locks, left_block, streaming_pull_future>>
    \/ \E t \in TaskIds : t <= Len(tasks) /\ Ack(t) /\ UNCHANGED observerVars
    \/ \E t \in TaskIds : t <= Len(tasks) /\ AckRecord(t) /\ UNCHANGED observerVars
    \/ \E t \in TaskIds : t <= Len(tasks) /\ AgentInvokeTraced(t) /\ UNCHANGED <<transport, locks, left_block, streaming_pull_future>>
    \/ \E t \in TaskIds : t <= Len(tasks) /\ AgentChunk(t) /\ UNCHANGED observerVars
    \/ \E t \in TaskIds : t <= Len(tasks) /\ ProgressRecord(t) /\ UNCHANGED observerVars
    \/ \E t \in TaskIds : t <= Len(tasks) /\ AgentReturn(t) /\ UNCHANGED observerVars
    \/ \E t \in TaskIds : t <= Len(tasks) /\ FinalRecord(t) /\ UNCHANGED observerVars
    \/ \E t \in TaskIds : t <= Len(tasks) /\ AgentRaiseTraced(t) /\ UNCHANGED <<transport, locks, left_block, streaming_pull_future>>
    \/ \E t \in TaskIds : t <= Len(tasks) /\ ErrorReply(t) /\ UNCHANGED observerVars
    \/ \E t \in TaskIds : t <= Len(tasks) /\ ErrorRecord(t) /\ UNCHANGED observerVars

SpecRedelivery ==
    InitRedelivery /\ [][NextRedelivery]_vars

\* the agent invocation for message m failed at entry i of the trace
AgentFailedAt(i, m) ==
    trace[i].op = "agent_failed" /\ trace[i].msg = m

\* the agent was invoked for message m at entry j of the trace
AgentCalledAt(j, m) ==
    trace[j].op = "agent" /\ trace[j].msg = m

NotInvokedAgainUnlessEvicted ==
    \A m \in MessageIds : \A i, j \in 1..Len(trace) :
        (i < j /\ AgentFailedAt(i, m) /\ AgentCalledAt(j, m))
        => \E k \in (i + 1)..(j - 1) : trace[k].op = "evicted" /\ trace[k].msg = m

C16_WebhookAnswersAtOnce ==
    \A e \in Envelopes :
        (transport[e].mode = "webhook" /\ transport[e].task # 0)
        => transport[e].response = HTTP_OK

\* a webhook request was answered with 200 before its worker has started, and
\* an earlier one keeps its 200 after its worker's processing hit an exception
C16_Witness ==
    \E e, f \in Envelopes :
        /\ transport[e].mode = "webhook"
        /\ transport[e].failure = "escaped"
        /\ transport[e].response = HTTP_OK
        /\ transport[f].task # 0
        /\ tasks[transport[f].task].pc = "queued"
        /\ transport[f].response = HTTP_OK

\* the payload is structured data, or padded base64 of structured data
Decodable(data) ==
    \/ data.text = "json"
    \/ (data.text = "base64" /\ data.inner = "notification" /\ data.length % 4 # 1)

\* C17: an envelope whose payload does not decode is rejected, with nack by
\* the pull callback and with status 500 by the webhook; the step submits no
\* worker and leaves the three ledger sets as they are.
C17_UndecodableRejected ==
    [][\A data \in Payloads :
        ~Decodable(data)
        => /\ Callback(data)
                => /\ tasks' = tasks
                   /\ UNCHANGED ledgerVars
                   /\ transport'[Len(transport')].task = 0
                   /\ transport'[Len(transport')].verdict = "nack"
           /\ Webhook([body |-> "data", data |-> data])
                => /\ tasks' = tasks
                   /\ UNCHANGED ledgerVars
                   /\ transport'[Len(transport')].task = 0
                   /\ transport'[Len(transport')].response = HTTP_ERROR]_vars

\* an envelope was rejected because its payload did not decode, and the worker
\* of a later envelope has got as far as the candidate resolution
C17_Witness ==
    \E e, f \in Envelopes :
        /\ e < f
        /\ transport[e].decoded = "no"
        /\ transport[e].verdict = "nack"
        /\ transport[f].task # 0
        /\ tasks[transport[f].task].pc = "resolve"

\* the operations of the trace that reach outside the service
SIDE_EFFECTS ==
    {"ack", "agent", "progress", "final", "error_reply"}

\* C18: whenever a side effect (acknowledgment, agent invocation, progress,
\* final or error reply) has been performed for a message, the message id is in
\* processed_messages: the worker added it before.
C18_MarkedBeforeSideEffects ==
    \A j \in 1..Len(trace) :
        trace[j].op \in SIDE_EFFECTS => trace[j].msg \in processed_messages

\* the acknowledgment for the first user message has just been sent: it is the
\* first side effect for that message
C18_Witness ==
    /\ trace # <<>>
    /\ trace[Len(trace)] = Event(1, "ack", 1, "sent")
    /\ 1 \in processed_messages
    /\ \A j \in 1..(Len(trace) - 1) : trace[j].op \notin SIDE_EFFECTS \/ trace[j].msg # 1

\* the gates of the candidate loop in the order the claim gives them, each
\* with the reason of its rejection and the mailbox calls that belong to it
GATE_ORDER ==
    << [why |-> "processed", calls |-> <<>>],
       [why |-> "old",       calls |-> << "get_message_timestamp" >>],
       [why |-> "invalid",   calls |-> << "get_sender_email", "get_recipient_email",
                                          "get_subject" >>],
       [why |-> "network",   calls |-> << "get_message_content", "get_sender_email" >>],
       [why |-> "system",    calls |-> <<>>] >>

\* the mailbox calls of the first k gates, in order
RECURSIVE CallsUpTo(_)
CallsUpTo(k) ==
    IF k = 0 THEN <<>> ELSE CallsUpTo(k - 1) \o GATE_ORDER[k].calls

IsPrefix(a, b) ==
    Len(a) <= Len(b) /\ SubSeq(b, 1, Len(a)) = a

\* the agent call at entry j of the trace comes after both checks let its
\* message through
PassedBeforeAgent(j) ==
    \E i \in 1..(j - 1) : \E k \in (i + 1)..(j - 1) :
        /\ trace[i] = Event(trace[j].task, "gate", trace[j].msg, "pass")
        /\ trace[k] = Event(trace[j].task, "system", trace[j].msg, "pass")

\* message m, as the mailbox holds it, meets the sender, recipient and subject
\* criteria and its body is not system-generated
MeetsCriteria(m) ==
    /\ lower(get_sender_email(m)) = TARGET_ADDRESS
    /\ lower(get_recipient_email(m)) = TARGET_ADDRESS
    /\ subject_matches(mailbox[m].subject)
    /\ Len(strip(mailbox[m].body)) >= 10
    /\ \A p \in 1..Len(system_patterns) :
           ~contains(lower(mailbox[m].body), lower(system_patterns[p]))

\* C19: a worker at the head of the candidate loop rejects a candidate at
\* gate k (message-id dedup, staleness, eligibility, body and sender fetch,
\* system-generated check, in this order) having made the mailbox calls of the
\* gates before k and at most those of gate k, none of a later gate; a
\* candidate found in processed_messages is rejected with no call at all; the
\* system-generated rejection makes no further call; and the agent is called
\* only for a message that both checks let through, that was not in
\* processed_messages when examined, and that meets the criteria.
C19_GatesInOrderShortCircuit ==
    /\ \A t \in 1..Len(tasks) :
        tasks[t].pc = "gate" =>
            /\ \A o \in HeaderGateOutcomes(Current(t)) :
                /\ IsPrefix(o.calls, CallsUpTo(Len(GATE_ORDER)))
                /\ \A k \in 1..Len(GATE_ORDER) :
                       (o.to = "next" /\ o.why = GATE_ORDER[k].why)
                       => /\ IsPrefix(CallsUpTo(k - 1), o.calls)
                          /\ IsPrefix(o.calls, CallsUpTo(k))
                /\ o.to = "system" => o.calls = CallsUpTo(Len(GATE_ORDER))
            /\ Current(t) \in processed_messages
               => HeaderGateOutcomes(Current(t))
                      = {[to |-> "next", why |-> "processed", calls |-> <<>>]}
    /\ \A t \in 1..Len(tasks) :
        tasks[t].pc = "system" =>
            \A o \in SystemGateOutcomes(Current(t)) :
                /\ o.why = "system" => o.to = "next" /\ o.calls = <<>>
                /\ o.to = "claim" => MeetsCriteria(Current(t))
    /\ \A j \in 1..Len(trace) :
        trace[j].op = "agent"
        => /\ PassedBeforeAgent(j)
           /\ MeetsCriteria(trace[j].msg)
           /\ \A i \in 1..(j - 1) :
                  ~(trace[i].op = "gate" /\ trace[i].msg = trace[j].msg
                    /\ trace[i].res = "processed")

\* the first candidate was rejected as stale, and the agent has been called for
\* the second, which passed both checks
C19_Witness ==
    /\ Len(trace) >= 4
    /\ trace[1] = Event(1, "gate", 2, "old")
    /\ trace[2] = Event(1, "gate", 1, "pass")
    /\ trace[3] = Event(1, "system", 1, "pass")
    /\ \E j \in 4..Len(trace) : trace[j] = Event(1, "agent", 1, "called")

\* the ways a gate rejects a candidate (an exception is not among them)
REJECTIONS ==
    {"processed", "old", "invalid", "network", "system", "nosubject", "empty"}

\* worker t has just rejected its candidate: the step added a rejection to
\* the trace
Rejects(t) ==
    /\ tasks[t].pc \in {"gate", "system"}
    /\ Len(trace') = Len(trace) + 1
    /\ trace'[Len(trace')].task = t
    /\ trace'[Len(trace')].op \in {"gate", "system"}
    /\ trace'[Len(trace')].res \in REJECTIONS

\* C20: a step that rejects a candidate, at whichever gate, leaves the worker
\* at the head of the loop for the next candidate of the same list, or
\* finished when the rejected candidate was the last one; and whatever a
\* worker does after a rejection starts with the examination of another
\* candidate.
C20_RejectionAdvances ==
    /\ [][\A t \in 1..Len(tasks) :
            Rejects(t)
            => IF tasks[t].i < Len(tasks[t].recent)
               THEN /\ tasks'[t].pc = "gate"
                    /\ tasks'[t].recent = tasks[t].recent
                    /\ tasks'[t].i = tasks[t].i + 1
               ELSE tasks'[t].pc = "done"]_vars
    /\ [](\A j \in 1..(Len(trace) - 1) :
            (trace[j].op \in {"gate", "system"} /\ trace[j].res \in REJECTIONS)
            => /\ trace[j + 1].task = trace[j].task
               /\ trace[j + 1].op = "gate"
               /\ trace[j + 1].msg # trace[j].msg)

\* the first candidate was rejected as system-generated and the second has
\* been examined and let through
C20_Witness ==
    /\ Len(trace) >= 3
    /\ trace[1] = Event(1, "gate", 3, "pass")
    /\ trace[2] = Event(1, "system", 3, "system")
    /\ trace[3] = Event(1, "gate", 1, "pass")

(***************************************************************************)
(* One worker from the resolution of its candidates on (lines 200-242),    *)
(* the way the lookups went recorded in trace                              *)
(***************************************************************************)
\* what the history lookup of a resolution gave
HistoryEnded(hr) ==
    IF hr.kind = "raise" THEN "failed"
    ELSE IF hr.kind = "none" THEN "unavailable"
    ELSE IF hr.val = <<>> THEN "no_history"
    ELSE IF messages_added(hr.val) = <<>> THEN "no_messages_added"
    ELSE "messages"

\* the resolution of worker t goes as run: trace tells what the history lookup
\* gave and whether the unread query was made
ResolveTraced(t) ==
    /\ tasks[t].pc = "resolve"
    /\ \E run \in ResolveRuns :
        /\ ResolveTo(t, run.result)
        /\ trace' = Append(trace, Event(t, IF run.unread > 0 THEN "resolve_unread"
                                              ELSE "resolve",
                                        0, HistoryEnded(run.history)))

\* The worker has claimed history id 1 and is about to look up its candidates.
InitLookup ==
    /\ processed_messages \in {{}, {Len(WorkerMailbox)}}
    /\ processed_history_ids = {1}
    /\ sent_message_ids = {}
    /\ last_cleanup_time = START_TIME
    /\ server_start_time = START_TIME
    /\ now = START_TIME
    /\ mailbox = WorkerMailbox
    /\ tasks = << [NewTask(1) EXCEPT !.pc = "resolve", !.current_time = START_TIME] >>
    /\ agent_calls = [m \in 1..Len(WorkerMailbox) |-> 0]
    /\ resolutions = [h \in HistoryIds |-> 0]
    /\ evictions = [h \in HistoryIds |-> 0]
    /\ retry = Idle
    /\ probe = Idle
    /\ InitObservers

NextLookup ==
    \/ ResolveTraced(1) /\ UNCHANGED <<transport, locks, left_block, streaming_pull_future>>
    \/ NextWorker

SpecLookup ==
    InitLookup /\ [][NextLookup]_vars

\* C21 as stated: whenever the history lookup of a resolution failed, was
\* unavailable, gave no history or gave history items without added
\* messages, the unread query was made before the candidate list was decided.
C21_FallbackWheneverNoCandidates ==
    \A j \in 1..Len(trace) :
        (/\ trace[j].op \in {"resolve", "resolve_unread"}
         /\ trace[j].res \in {"failed", "unavailable", "no_history", "no_messages_added"})
        => trace[j].op = "resolve_unread"

\* the acknowledgment for the message of entry j of the trace was attempted
\* and the send returned no id
AckUnsentAt(j) ==
    trace[j].op = "ack" /\ trace[j].res = "none"

\* C22: when the send of the acknowledgment returns no id, the very next
\* thing the worker does for the message is to invoke the agent, and by the
\* time the worker is through with the message it has attempted the final
\* reply or the error reply.
C22_UnsentAckIsNotFatal ==
    \A j \in 1..Len(trace) :
        AckUnsentAt(j)
        => /\ IF j = Len(trace)
              THEN tasks[trace[j].task].pc = "agent" /\ Current(trace[j].task) = trace[j].msg
              ELSE trace[j + 1] = Event(trace[j].task, "agent", trace[j].msg, "called")
           /\ Finished(trace[j].task, trace[j].msg)
                => \E k \in (j + 1)..Len(trace) :
                       /\ trace[k].task = trace[j].task
                       /\ trace[k].msg = trace[j].msg
                       /\ trace[k].op \in {"final", "error_reply"}
                       /\ trace[k].res # "nothread"

\* the acknowledgment for the first user message was not sent, the agent ran
\* and the final reply went out
C22_Witness ==
    \E j \in 1..Len(trace) : \E k \in 1..Len(trace) :
        /\ trace[j] = Event(1, "ack", 1, "none")
        /\ j + 1 < k
        /\ trace[k] = Event(1, "final", 1, "sent")

(***************************************************************************)
(* One agent session: the chunks the agent streams to progress_callback,   *)
(* short ones among them (lines 334-354)                                   *)
(***************************************************************************)
\* a chunk of no more than PROGRESS_MIN_LENGTH characters
SHORT_CHUNK ==
    "Reading the file."

\* what the agent can stream
StreamedChunks ==
    Chunks \cup {SHORT_CHUNK}

\* progress_callback(c): trace tells for every chunk whether the callback
\* went on to send it as a progress reply
AgentChunkObserved(t) ==
    /\ tasks[t].pc = "running"
    /\ Len(tasks[t].updates) < MaxChunks
    /\ \E c \in StreamedChunks : \E res \in SendResults :
        /\ AgentChunkWith(t, c, res)
        /\ trace' = Append(trace,
                Event(t, "chunk", Current(t),
                      IF progress_due(tasks[t].thread_id, Append(tasks[t].updates, c), c)
                      THEN "forwarded" ELSE "kept"))

\* The worker has claimed the first user message and has just called the
\* agent; the thread id fetch gave the thread or ''.
InitProgress ==
    /\ processed_messages = {1}
    /\ processed_history_ids = {1}
    /\ sent_message_ids = {}
    /\ last_cleanup_time = START_TIME
    /\ server_start_time = START_TIME
    /\ now = START_TIME
    /\ mailbox = UserMessages
    /\ \E th \in {get_thread_id(1), ""} :
        tasks = << [NewTask(1) EXCEPT !.pc = "running", !.current_time = START_TIME,
                                      !.recent = << 1 >>, !.i = 1,
                                      !.thread_id = Value(th)] >>
    /\ agent_calls = [m \in 1..Len(UserMessages) |-> IF m = 1 THEN 1 ELSE 0]
    /\ resolutions = [h \in HistoryIds |-> IF h = 1 THEN 1 ELSE 0]
    /\ evictions = [h \in HistoryIds |-> 0]
    /\ retry = Idle
    /\ probe = Idle
    /\ InitObservers

NextProgress ==
    \/ AgentChunkObserved(1) /\ UNCHANGED <<transport, locks, left_block, streaming_pull_future>>
    \/ ProgressRecord(1) /\ UNCHANGED observerVars
    \/ AgentReturn(1) /\ UNCHANGED observerVars
    \/ FinalRecord(1) /\ UNCHANGED observerVars
    \/ AgentRaise(1) /\ UNCHANGED observerVars
    \/ ErrorReply(1) /\ UNCHANGED observerVars
    \/ ErrorRecord(1) /\ UNCHANGED observerVars

SpecProgress ==
    InitProgress /\ [][NextProgress]_vars

\* chunks of more than 50 characters among the first j of a session
SubstantialUpTo(updates, j) ==
    Cardinality({i \in 1..j : Len(updates[i]) > 50})

\* C23 as stated: with a thread id, the j-th chunk of a session is forwarded
\* as a progress reply exactly when it has more than 50 characters and is the
\* k-th such chunk of the session for a multiple k of 3, however many
\* shorter chunks came in between.
C23_EveryThirdSubstantialChunk ==
    (/\ tasks[1].pc \in {"running", "progress_record", "error"}
     /\ TruthyStr(tasks[1].thread_id)
     /\ Len(trace) = Len(tasks[1].updates))
    => \A j \in 1..Len(trace) :
          trace[j].res = "forwarded"
          <=> /\ Len(tasks[1].updates[j]) > 50
              /\ SubstantialUpTo(tasks[1].updates, j) % 3 = 0

\* the final replies in the mailbox for message m: sent by the service in
\* the thread of m, with the response after the heading
FinalReplies(m) ==
    {r \in MessageIds :
        /\ mailbox[r].by = "system"
        /\ mailbox[r].threadId = get_thread_id(m)
        /\ startswith(mailbox[r].body, "Task completed!")}

\* no send attempted for message m by worker t ended without an id
NoSendFailed(t, m) ==
    \A j \in 1..Len(trace) :
        (trace[j].task = t /\ trace[j].msg = m) => trace[j].res \notin {"none", "raise"}

AgentReturns(t) ==
    /\ tasks[t].pc = "running"
    /\ Len(trace') = Len(trace) + 1
    /\ trace'[Len(trace')].task = t
    /\ trace'[Len(trace')].op = "final"

C25_RecordedBeforeObservable ==
    \A t \in 1..Len(tasks) :
        (tasks[t].pc = "gate" /\ mailbox[Current(t)].by = "system")
        => Current(t) \in sent_message_ids

\* C25 amended: a worker can have a reply as its candidate before the id of
\* the reply is recorded, but the examination ends at the eligibility check,
\* whose subject test the reply fails: no worker evaluates the
\* system-generated check (lines 281-288) for a reply of the service, so none
\* does for a reply whose id is not yet in sent_message_ids.
C25_ReplyStopsAtEligibility ==
    \A t \in 1..Len(tasks) :
        /\ (tasks[t].pc = "gate" /\ mailbox[Current(t)].by = "system")
            => /\ ~subject_matches(get_subject(Current(t)))
               /\ \A o \in HeaderGateOutcomes(Current(t)) : o.to # "system"
        /\ tasks[t].pc = "system" => mailbox[Current(t)].by # "system"

\* a worker has sent a reply and is about to record its id, and another
\* worker has that reply as its candidate
C25_Witness ==
    \E a, b \in 1..Len(tasks) :
        /\ a # b
        /\ tasks[a].pc \in {"ack_record", "progress_record", "final_record", "error_record"}
        /\ tasks[b].pc = "gate"
        /\ Current(b) = tasks[a].pending
        /\ Current(b) \notin sent_message_ids

(***************************************************************************)
(* cleanup_processed_messages alone: one call, on ledgers at and over      *)
(* their limits, at, before and after the end of the cleanup interval      *)
(***************************************************************************)
\* ids a set holds beyond its limit when the call starts
MaxExcess ==
    1

\* seconds since the last cleanup when the call reads the clock
ElapsedTimes ==
    {0, CLEANUP_INTERVAL - 1, CLEANUP_INTERVAL, CLEANUP_INTERVAL + 1}

\* earlier traffic left each set at its limit or over it (a set grows between
\* two cleanups), the message of a recent notification possibly among the
\* processed ones
InitCleanup ==
    /\ \E n \in 0..MaxExcess : \E S \in {{}, {1}} :
        processed_messages = OldIds(MAX_PROCESSED + n - Cardinality(S)) \cup S
    /\ \E n \in 0..MaxExcess : processed_history_ids = OldIds(MAX_HISTORY + n)
    /\ \E n \in 0..MaxExcess : sent_message_ids = OldIds(MAX_SENT + n)
    /\ last_cleanup_time = START_TIME
    /\ server_start_time = START_TIME
    /\ \E e \in ElapsedTimes : now = START_TIME + e
    /\ mailbox = UserMessages
    /\ tasks = << [NewTask(1) EXCEPT !.pc = "cleanup"] >>
    /\ agent_calls = [m \in 1..Len(UserMessages) |-> 0]
    /\ resolutions = [h \in HistoryIds |-> 0]
    /\ evictions = [h \in HistoryIds |-> 0]
    /\ retry = Idle
    /\ probe = Idle
    /\ InitObservers

NextCleanup ==
    \/ CleanupMessages(1) /\ UNCHANGED observerVars
    \/ CleanupHistory(1) /\ UNCHANGED observerVars
    \/ CleanupSent(1) /\ UNCHANGED observerVars

SpecCleanup ==
    InitCleanup /\ [][NextCleanup]_vars

\* C26: a call of cleanup_processed_messages that reads the clock at most
\* 3600 seconds after the last cleanup changes none of the three sets and
\* not the time of the last cleanup, whatever the sizes of the sets; the
\* steps that trim are taken only by a call that read the clock later.
C26_NoCleanupWithinTheHour ==
    [][\A t \in 1..Len(tasks) :
        /\ (tasks[t].pc = "cleanup" /\ now - last_cleanup_time <= 3600)
            => /\ UNCHANGED ledgerVars
               /\ tasks'[t].pc = "cursor"
        /\ tasks'[t].pc \in {"cleanup_history", "cleanup_sent"}
            => tasks'[t].current_time - last_cleanup_time > 3600]_vars

\* the call came exactly 3600 seconds after the last cleanup, with every set
\* over its limit, and has returned
C26_Witness ==
    /\ tasks[1].pc = "cursor"
    /\ tasks[1].current_time - last_cleanup_time = 3600
    /\ Cardinality(processed_messages) > MAX_PROCESSED
    /\ Cardinality(processed_history_ids) > MAX_HISTORY
    /\ Cardinality(sent_message_ids) > MAX_SENT

\* a trim of a set: over `limit` entries it leaves exactly `keep` of them,
\* otherwise it leaves the set as it is
TrimmedTo(before, after, limit, keep) ==
    IF Cardinality(before) > limit
    THEN Cardinality(after) = keep /\ after \subseteq before
    ELSE after = before

\* the step of worker t is a trim of the set that pc names
Trims(t, pc) ==
    tasks[t].pc = pc /\ tasks'[t].pc # pc /\ tasks'[t].current_time - last_cleanup_time > 3600

\* C27 as stated: in a compaction every set of more than 100 entries ends
\* with its retained size (50, 50, 25), its survivors taken from the set
\* before, and every set of at most 100 entries is left as it is.
C27_TrimmedOver100 ==
    [][\A t \in 1..Len(tasks) :
        /\ Trims(t, "cleanup")
            => TrimmedTo(processed_messages, processed_messages', 100, 50)
        /\ Trims(t, "cleanup_history")
            => TrimmedTo(processed_history_ids, processed_history_ids', 100, 50)
        /\ Trims(t, "cleanup_sent")
            => TrimmedTo(sent_message_ids, sent_message_ids', 100, 25)]_vars

\* C27 amended: in a compaction the processed message ids and the history
\* cursors are cut to exactly 50 when they hold more than 100, the sent reply
\* ids to exactly 25 when they hold more than 50; the survivors are members
\* of the set before, and a set that does not exceed its limit is left as it
\* is.
C27_TrimmedOverOwnLimit ==
    [][\A t \in 1..Len(tasks) :
        /\ Trims(t, "cleanup")
            => TrimmedTo(processed_messages, processed_messages', 100, 50)
        /\ Trims(t, "cleanup_history")
            => TrimmedTo(processed_history_ids, processed_history_ids', 100, 50)
        /\ Trims(t, "cleanup_sent")
            => TrimmedTo(sent_message_ids, sent_message_ids', 50, 25)]_vars

\* a compaction has run: the processed message ids and the sent reply ids
\* were over their limits and are cut down, the history cursors were at their
\* limit and are all there
C27_Witness ==
    /\ tasks[1].pc = "cursor"
    /\ last_cleanup_time > START_TIME
    /\ Cardinality(processed_messages) = 50
    /\ processed_history_ids = OldIds(100)
    /\ Cardinality(sent_message_ids) = 25

(***************************************************************************)
(* The worker pool: two workers are about to call the agent (the thread id *)
(* fetch of the second gave '') while the transport delivers the same      *)
(* notifications again                                                     *)
(***************************************************************************)
\* tasks submitted to the pool in one run, the two at work included
MaxSubmitted ==
    5

\* two requests that arrived as the server started
PoolMailbox ==
    << UserMessages[1],
       Message(TARGET_ADDRESS, TARGET_ADDRESS, "CLAUDE", "fix the login bug",
               START_TIME * 1000, "t2", "user") >>

\* a worker that has claimed message m of history id h; its thread id fetch
\* gave th, and no acknowledgment was sent
ClaimedTask(h, m, th) ==
    [NewTask(h) EXCEPT !.pc = "agent", !.current_time = START_TIME, !.recent = << m >>,
                       !.i = 1, !.thread_id = Value(th)]

InitPool ==
    /\ mailbox = PoolMailbox
    /\ processed_messages = {1, 2}
    /\ processed_history_ids = {1, 2}
    /\ sent_message_ids = {}
    /\ last_cleanup_time = START_TIME
    /\ server_start_time = START_TIME
    /\ now = START_TIME
    /\ tasks = << ClaimedTask(1, 1, "t1"), ClaimedTask(2, 2, "") >>
    /\ agent_calls = [m \in 1..Len(PoolMailbox) |-> 0]
    /\ resolutions = [h \in HistoryIds |-> 1]
    /\ evictions = [h \in HistoryIds |-> 0]
    /\ retry = Idle
    /\ probe = Idle
    /\ InitObservers

\* executor.submit(self.process_notification, notification_data) for a
\* history id delivered again
Submit(h) ==
    /\ Len(tasks) < MaxSubmitted
    /\ tasks' = Append(tasks, NewTask(h))
    /\ UNCHANGED <<ledgerVars, server_start_time, now, mailbox, agent_calls, resolutions,
                   evictions, retry, probe>>

PoolTaskIds ==
    1..MaxSubmitted

NextPool ==
    \/ \E h \in HistoryIds : Submit(h) /\ UNCHANGED observerVars
    \/ \E t \in PoolTaskIds : t <= Len(tasks) /\ Start(t) /\ UNCHANGED observerVars
    \/ \E t \in PoolTaskIds : t <= Len(tasks) /\ CleanupMessages(t) /\ UNCHANGED observerVars
    \/ \E t \in PoolTaskIds : t <= Len(tasks) /\ CursorGate(t) /\ UNCHANGED observerVars
    \/ \E t \in PoolTaskIds : t <= Len(tasks) /\ AgentInvoke(t) /\ UNCHANGED observerVars
    \/ \E t \in PoolTaskIds : t <= Len(tasks) /\ AgentChunk(t) /\ UNCHANGED observerVars
    \/ \E t \in PoolTaskIds : t <= Len(tasks) /\ ProgressRecord(t) /\ UNCHANGED observerVars
    \/ \E t \in PoolTaskIds : t <= Len(tasks) /\ AgentReturn(t) /\ UNCHANGED observerVars
    \/ \E t \in PoolTaskIds : t <= Len(tasks) /\ FinalRecord(t) /\ UNCHANGED observerVars
    \/ \E t \in PoolTaskIds : t <= Len(tasks) /\ AgentRaise(t) /\ UNCHANGED observerVars
    \/ \E t \in PoolTaskIds : t <= Len(tasks) /\ ErrorReply(t) /\ UNCHANGED observerVars
    \/ \E t \in PoolTaskIds : t <= Len(tasks) /\ ErrorRecord(t) /\ UNCHANGED observerVars

SpecPool ==
    InitPool /\ [][NextPool]_vars

\* the workers whose agent session is in progress
InSession ==
    {t \in 1..Len(tasks) : tasks[t].pc \in {"running", "progress_record"}}

\* C28: at most 4 executions of process_notification run at once, and so at
\* most 4 agent sessions, however many tasks have been submitted; a task
\* submitted while 4 run waits in the queue.
C28_AtMostFourWorkers ==
    /\ Cardinality(Running) <= 4
    /\ Cardinality(InSession) <= 4
    /\ InSession \subseteq Running

\* four workers run, two of them in their agent sessions at the same moment,
\* and a fifth task waits
C28_Witness ==
    /\ Cardinality(Running) = 4
    /\ Cardinality(InSession) = 2
    /\ \E t \in 1..Len(tasks) : tasks[t].pc = "queued"

(***************************************************************************)
(* The three locks: every `with self.<set>_lock:` block is entered in a    *)
(* step of its own, so that a worker can be seen waiting for a lock        *)
(***************************************************************************)
\* variant: processed_messages.add(message_id) without the `with` of line 309
lock_needed_ClaimUnlocked(r) ==
    CASE r.pc = "cleanup" ->
            IF cleanup_due(now) THEN "processed_messages_lock" ELSE "none"
      [] r.pc = "cleanup_history" -> "processed_history_ids_lock"
      [] r.pc = "cleanup_sent" -> "sent_message_ids_lock"
      [] r.pc = "cursor" -> "processed_history_ids_lock"
      [] r.pc = "gate" -> "processed_messages_lock"
      [] r.pc = "system" -> "sent_message_ids_lock"
      [] r.pc \in {"ack_record", "progress_record", "final_record", "error_record"} ->
            "sent_message_ids_lock"
      [] OTHER -> "none"

\* the `with` block at the head of the step a worker is about to take:
\* lines 158, 166, 173 of cleanup_processed_messages (inside the hourly `if`),
\* 194 (cursor), 247 (already processed?), 90 (is_system_generated_email),
\* 309 (mark processed), 327, 352, 374, 393 (record a sent id)
lock_needed(r) ==
    CASE r.pc = "cleanup" ->
            IF cleanup_due(now) THEN "processed_messages_lock" ELSE "none"
      [] r.pc = "cleanup_history" -> "processed_history_ids_lock"
      [] r.pc = "cleanup_sent" -> "sent_message_ids_lock"
      [] r.pc = "cursor" -> "processed_history_ids_lock"
      [] r.pc = "gate" -> "processed_messages_lock"
      [] r.pc = "system" -> "sent_message_ids_lock"
      [] r.pc = "claim" -> "processed_messages_lock"
      [] r.pc \in {"ack_record", "progress_record", "final_record", "error_record"} ->
            "sent_message_ids_lock"
      [] OTHER -> "none"

\* the locks worker t holds
Held(t) ==
    {l \in LOCKS : locks[l] = t}

\* threading.Lock.__enter__: the worker waits until the lock is free, then
\* holds it; no other lock is consulted
Acquire(t) ==
    /\ t \notin left_block
    /\ lock_needed(tasks[t]) # "none"
    /\ locks[lock_needed(tasks[t])] = 0
    /\ locks' = [locks EXCEPT ![lock_needed(tasks[t])] = t]
    /\ UNCHANGED <<mainVars, retry, probe, trace, transport, left_block,
                   streaming_pull_future>>

\* the worker is inside the `with` block its next step starts with, if any
Entered(t) ==
    IF lock_needed(tasks[t]) = "none" THEN TRUE ELSE locks[lock_needed(tasks[t])] = t

\* variant: the lock is taken with acquire() and never given back
Released_Never(t) ==
    locks

\* threading.Lock.__exit__ at the end of the block
Released(t) ==
    [l \in LOCKS |-> IF locks[l] = t THEN 0 ELSE locks[l]]

\* step A of worker t, all of it inside its `with` block if it has one
InBlock(t, A) ==
    /\ t \notin left_block
    /\ Entered(t)
    /\ A
    /\ locks' = Released(t)
    /\ UNCHANGED <<trace, transport, left_block, streaming_pull_future>>

\* lines 158-164: the worker passed the hourly test of line 157 before it
\* asked for the lock, and trims whatever another worker has done meanwhile
CleanupBlock(t) ==
    /\ tasks[t].pc = "cleanup"
    /\ locks["processed_messages_lock"] = t
    /\ processed_messages' \in trimmed(processed_messages, MAX_PROCESSED, KEEP_PROCESSED)
    /\ tasks' = [tasks EXCEPT ![t].pc = "cleanup_history", ![t].current_time = now]
    /\ locks' = Released(t)
    /\ UNCHANGED <<processed_history_ids, sent_message_ids, last_cleanup_time,
                   server_start_time, now, mailbox, agent_calls, resolutions, evictions,
                   retry, probe, trace, transport, left_block, streaming_pull_future>>

\* the worker leaves the block and goes on with the rest of the step
LeaveBlock(t) ==
    /\ locks' = Released(t)
    /\ left_block' = left_block \cup {t}
    /\ UNCHANGED <<mainVars, retry, probe, trace, transport, streaming_pull_future>>

\* lines 247-250: the processed check, alone inside the block
GateBlock(t) ==
    /\ tasks[t].pc = "gate"
    /\ t \notin left_block
    /\ Entered(t)
    /\ IF Current(t) \in processed_messages
       THEN /\ HeaderGateTo(t, ALREADY_PROCESSED)
            /\ locks' = Released(t)
            /\ UNCHANGED <<trace, transport, left_block, streaming_pull_future>>
       ELSE LeaveBlock(t)

\* lines 252-279: the fetches, after the block
GateTail(t) ==
    /\ tasks[t].pc = "gate"
    /\ t \in left_block
    /\ \E o \in HeaderFetchOutcomes(Current(t)) : HeaderGateTo(t, o)
    /\ left_block' = left_block \ {t}
    /\ UNCHANGED <<trace, transport, locks, streaming_pull_future>>

\* lines 90-92: the sent-id check, alone inside the block
SystemBlock(t) ==
    /\ tasks[t].pc = "system"
    /\ t \notin left_block
    /\ Entered(t)
    /\ IF Current(t) \in sent_message_ids
       THEN /\ \E o \in SystemGateOutcomesGiven(Current(t), {Current(t)}) :
                    SystemGateTo(t, o)
            /\ locks' = Released(t)
            /\ UNCHANGED <<trace, transport, left_block, streaming_pull_future>>
       ELSE LeaveBlock(t)

\* lines 94-113 and 290-302: the content patterns, the subject fetch and the
\* empty-content check, after the block
SystemTail(t) ==
    /\ tasks[t].pc = "system"
    /\ t \in left_block
    /\ \E o \in SystemGateOutcomesGiven(Current(t), {}) : SystemGateTo(t, o)
    /\ left_block' = left_block \ {t}
    /\ UNCHANGED <<trace, transport, locks, streaming_pull_future>>

\* lines 309-310: the add, alone inside the block
ClaimBlock(t) ==
    /\ tasks[t].pc = "claim"
    /\ t \notin left_block
    /\ Entered(t)
    /\ processed_messages' = mark_processed(processed_messages, Current(t))
    /\ locks' = Released(t)
    /\ left_block' = left_block \cup {t}
    /\ UNCHANGED <<processed_history_ids, sent_message_ids, last_cleanup_time,
                   server_start_time, now, mailbox, tasks, agent_calls, resolutions,
                   evictions, retry, probe, trace, transport, streaming_pull_future>>

\* lines 313-315: the thread id fetch, after the block (the id is in the set
\* already, Claim leaves the set as it is)
ClaimTail(t) ==
    /\ tasks[t].pc = "claim"
    /\ t \in left_block
    /\ Claim(t)
    /\ left_block' = left_block \ {t}
    /\ UNCHANGED <<trace, transport, locks, streaming_pull_future>>

\* two notifications are in the pool's queue, the hour since the last cleanup
\* has passed and each set has grown past its limit
InitLocks ==
    /\ processed_messages = OldIds(MAX_PROCESSED + MaxExcess)
    /\ processed_history_ids = OldIds(MAX_HISTORY + MaxExcess)
    /\ sent_message_ids = OldIds(MAX_SENT + MaxExcess)
    /\ last_cleanup_time = START_TIME
    /\ server_start_time = START_TIME
    /\ now = START_TIME + CLEANUP_INTERVAL + 1
    /\ mailbox = UserMessages
    /\ tasks = << NewTask(1), NewTask(2) >>
    /\ agent_calls = [m \in 1..Len(UserMessages) |-> 0]
    /\ resolutions = [h \in HistoryIds |-> 0]
    /\ evictions = [h \in HistoryIds |-> 0]
    /\ retry = Idle
    /\ probe = Idle
    /\ InitObservers

NextLocks ==
    \/ \E t \in TaskIds : t <= Len(tasks) /\ Start(t) /\ UNCHANGED observerVars
    \/ \E t \in TaskIds : t <= Len(tasks) /\ Acquire(t)
    \/ \E t \in TaskIds : t <= Len(tasks) /\ Held(t) = {} /\ InBlock(t, CleanupMessages(t))
    \/ \E t \in TaskIds : t <= Len(tasks) /\ CleanupBlock(t)
    \/ \E t \in TaskIds : t <= Len(tasks) /\ InBlock(t, CleanupHistory(t))
    \/ \E t \in TaskIds : t <= Len(tasks) /\ InBlock(t, CleanupSent(t))
    \/ \E t \in TaskIds : t <= Len(tasks) /\ InBlock(t, CursorGate(t))
    \/ \E t \in TaskIds : t <= Len(tasks) /\ InBlock(t, Resolve(t))
    \/ \E t \in TaskIds : t <= Len(tasks) /\ GateBlock(t)
    \/ \E t \in TaskIds : t <= Len(tasks) /\ GateTail(t)
    \/ \E t \in TaskIds : t <= Len(tasks) /\ SystemBlock(t)
    \/ \E t \in TaskIds : t <= Len(tasks) /\ SystemTail(t)
    \/ \E t \in TaskIds : t <= Len(tasks) /\ ClaimBlock(t)
    \/ \E t \in TaskIds : t <= Len(tasks) /\ ClaimTail(t)
    \/ \E t \in TaskIds : t <= Len(tasks) /\ InBlock(t, Ack(t))
    \/ \E t \in TaskIds : t <= Len(tasks) /\ InBlock(t, AckRecord(t))
    \/ \E t \in TaskIds : t <= Len(tasks) /\ InBlock(t, AgentInvoke(t))
    \/ \E t \in TaskIds : t <= Len(tasks) /\ InBlock(t, AgentChunk(t))
    \/ \E t \in TaskIds : t <= Len(tasks) /\ InBlock(t, ProgressRecord(t))
    \/ \E t \in TaskIds : t <= Len(tasks) /\ InBlock(t, AgentReturn(t))
    \/ \E t \in TaskIds : t <= Len(tasks) /\ InBlock(t, FinalRecord(t))
    \/ \E t \in TaskIds : t <= Len(tasks) /\ InBlock(t, AgentRaise(t))
    \/ \E t \in TaskIds : t <= Len(tasks) /\ InBlock(t, ErrorReply(t))
    \/ \E t \in TaskIds : t <= Len(tasks) /\ InBlock(t, ErrorRecord(t))

SpecLocks ==
    InitLocks /\ [][NextLocks]_vars

\* the ledger set a lock guards
GuardedSet(l) ==
    CASE l = "processed_messages_lock" -> processed_messages
      [] l = "processed_history_ids_lock" -> processed_history_ids
      [] l = "sent_message_ids_lock" -> sent_message_ids

\* C29: every step that changes a ledger set (an insertion or a compaction)
\* is taken by a worker that holds that set's lock and no other; a worker
\* never holds two locks, and a worker about to enter the block of one set
\* can do so whenever that set's lock is free, whoever holds the other two.
C29_MutationsUnderOwnLock ==
    /\ [][\A l \in LOCKS :
            GuardedSet(l)' # GuardedSet(l) =>
                \E t \in 1..Len(tasks) :
                    /\ tasks'[t] # tasks[t] \/ t \in left_block' \ left_block
                    /\ Held(t) = {l}]_vars
    /\ [](\A t \in 1..Len(tasks) :
            /\ Cardinality(Held(t)) <= 1
            /\ IF t \in left_block \/ lock_needed(tasks[t]) = "none" THEN TRUE
               ELSE locks[lock_needed(tasks[t])] = 0 => ENABLED Acquire(t))

\* worker 1 is inside the block of processed_messages while worker 2 is
\* inside the block of processed_history_ids, after a compaction of
\* processed_messages and an insertion into processed_history_ids
C29_Witness ==
    /\ locks["processed_messages_lock"] = 1
    /\ locks["processed_history_ids_lock"] = 2
    /\ processed_messages # OldIds(MAX_PROCESSED + MaxExcess)
    /\ 1 \in processed_history_ids

\* worker t is at the head of a `with` block whose lock another worker holds
Waiting(t) ==
    /\ t \notin left_block
    /\ lock_needed(tasks[t]) # "none"
    /\ locks[lock_needed(tasks[t])] \notin {0, t}

\* the step worker t is about to take calls the mailbox or the agent: the
\* history lookup, a send, the agent session, or the fetches that follow the
\* block of a gate
MakesCall(t) ==
    \/ tasks[t].pc \in {"resolve", "ack", "agent", "running", "error"}
    \/ tasks[t].pc \in {"gate", "system", "claim"} /\ t \in left_block

\* C34: no worker holds two of the three locks, a lock is taken only by a
\* worker that holds none, no step that calls the mailbox or the agent is
\* taken with a lock held, and whoever waits for a lock waits for a worker
\* that is itself not waiting and is inside its block: there is no cycle of
\* waiting workers.
C34_NoLockCycle ==
    /\ [][\A l \in LOCKS :
            (locks'[l] # locks[l] /\ locks'[l] # 0) => Held(locks'[l]) = {}]_vars
    /\ [](\A t \in 1..Len(tasks) :
            /\ Cardinality(Held(t)) < 2
            /\ MakesCall(t) => Held(t) = {}
            /\ Waiting(t) =>
                  LET u == locks[lock_needed(tasks[t])] IN
                      /\ ~Waiting(u)
                      /\ Held(u) = {lock_needed(tasks[t])})

\* worker 2 waits to make its processed check while worker 1 is inside the
\* block that marks its candidate as processed
C34_Witness ==
    /\ Len(tasks) = 2
    /\ Waiting(2)
    /\ tasks[2].pc = "gate"
    /\ tasks[1].pc = "claim"
    /\ locks["processed_messages_lock"] = 1

(***************************************************************************)
(* Fetches that come back as None (SpecWorker)                             *)
(***************************************************************************)
\* the steps from the agent call to the last reply for the current candidate
AgentSteps ==
    {"agent", "running", "progress_record", "final_record", "error", "error_record"}

\* C30: a candidate one of whose fetches came back as None after the retries
\* is skipped: the agent is not invoked for it. The thread id is the fetch
\* whose result the worker keeps (line 313), so for it the claim reads: no
\* worker is in or past the agent call with a thread id of None.
C30_UnavailableFetchSkips ==
    \A t \in 1..Len(tasks) :
        tasks[t].pc \in AgentSteps => ~IsNone(tasks[t].thread_id)

(***************************************************************************)
(* Shutdown in pull mode: start_listening catches KeyboardInterrupt and    *)
(* cancels the streaming pull; a cancelled subscription hands no further   *)
(* message to callback                                                     *)
(***************************************************************************)
\* variant: the executor is torn down with the subscription and its workers
\* end on the spot
workers_at_cancel_Killed(ts) ==
    [t \in 1..Len(ts) |-> Finish(ts[t])]

\* lines 446-448 cancel the subscription and print; self.executor is not shut
\* down and no future is cancelled, so the workers are left as they are
workers_at_cancel(ts) ==
    ts

\* except KeyboardInterrupt: streaming_pull_future.cancel()
Shutdown ==
    /\ streaming_pull_future = "running"
    /\ streaming_pull_future' = "cancelled"
    /\ tasks' = workers_at_cancel(tasks)
    /\ UNCHANGED <<ledgerVars, server_start_time, now, mailbox, agent_calls, resolutions,
                   evictions, retry, probe, trace, transport, locks, left_block>>

\* the subscriber calls callback for a message only while the pull is running
Subscribed(data) ==
    /\ streaming_pull_future = "running"
    /\ Callback(data)

\* one step of pool worker t
WorkerStep(t) ==
    \/ Start(t) /\ UNCHANGED observerVars
    \/ CleanupMessages(t) /\ UNCHANGED observerVars
    \/ CleanupHistory(t) /\ UNCHANGED observerVars
    \/ CleanupSent(t) /\ UNCHANGED observerVars
    \/ CursorGate(t) /\ UNCHANGED observerVars
    \/ ResolveNoted(t) /\ UNCHANGED <<trace, locks, left_block, streaming_pull_future>>
    \/ HeaderGateNoted(t) /\ UNCHANGED <<trace, locks, left_block, streaming_pull_future>>
    \/ SystemGateNoted(t) /\ UNCHANGED <<trace, locks, left_block, streaming_pull_future>>
    \/ ClaimNoted(t) /\ UNCHANGED <<trace, locks, left_block, streaming_pull_future>>
    \/ AckNoted(t) /\ UNCHANGED <<trace, locks, left_block, streaming_pull_future>>
    \/ AckRecord(t) /\ UNCHANGED observerVars
    \/ AgentInvoke(t) /\ UNCHANGED observerVars
    \/ AgentChunk(t) /\ UNCHANGED observerVars
    \/ ProgressRecord(t) /\ UNCHANGED observerVars
    \/ AgentReturn(t) /\ UNCHANGED observerVars
    \/ FinalRecord(t) /\ UNCHANGED observerVars
    \/ AgentRaise(t) /\ UNCHANGED observerVars
    \/ ErrorReplyNoted(t) /\ UNCHANGED <<trace, locks, left_block, streaming_pull_future>>
    \/ ErrorRecord(t) /\ UNCHANGED observerVars

NextShutdown ==
    \/ Shutdown
    \/ \E data \in Payloads : Subscribed(data)
    \/ \E e \in EnvelopeIds : e <= Len(transport) /\ FutureDone(e)
    \/ \E e \in EnvelopeIds : e <= Len(transport) /\ FutureTimeout(e)
    \/ \E t \in TaskIds : t <= Len(tasks) /\ WorkerStep(t)

SpecShutdown ==
    Init /\ [][NextShutdown]_vars

\* worker t has a step to take: it has not returned, and if it is still in
\* the executor's queue a pool thread is free
CanStep(t) ==
    /\ t <= Len(tasks)
    /\ tasks[t].pc # "done"
    /\ tasks[t].pc = "queued" => pool_has_free_thread(Running)

\* the pool threads run: weak fairness of every worker's steps, written out
\* with CanStep(t) for ENABLED <<WorkerStep(t)>>_vars (every mailbox call, send
\* and agent session returns or raises, so a worker that has a step takes it)
PoolFair ==
    \A t \in TaskIds :
        \/ []<>(~CanStep(t))
        \/ []<><<t <= Len(tasks) /\ WorkerStep(t)>>_vars

\* a callback whose future is done leaves future.result and answers
CallbackFair ==
    \A e \in EnvelopeIds : WF_vars(e <= Len(transport) /\ FutureDone(e))

\* pull mode with the pool threads and the callbacks running
SpecPullFair ==
    SpecShutdown /\ PoolFair /\ CallbackFair

\* C32: once the streaming pull is cancelled no envelope is received and no
\* worker is submitted; the cancellation itself leaves every worker as it is,
\* and afterwards every worker in flight goes on to its own end.
C32_GracefulShutdown ==
    /\ [][/\ streaming_pull_future = "cancelled"
             => /\ Len(tasks') = Len(tasks)
                /\ Len(transport') = Len(transport)
                /\ streaming_pull_future' = "cancelled"
          /\ streaming_pull_future' # streaming_pull_future => tasks' = tasks]_vars
    /\ \A t \in TaskIds :
          (streaming_pull_future = "cancelled" /\ t <= Len(tasks))
              ~> (t <= Len(tasks) /\ tasks[t].pc = "done")

\* the pull is cancelled while one worker is in its agent session and its
\* envelope is still unanswered
C32_Witness ==
    /\ streaming_pull_future = "cancelled"
    /\ \E e \in 1..Len(transport) :
        /\ transport[e].verdict = "waiting"
        /\ tasks[transport[e].task].pc = "running"

\* the step of worker t exists whenever CanStep(t) says so: the call it makes
\* has at least one result
StepExists(t) ==
    CASE tasks[t].pc = "resolve" -> ResolveOutcomes # {}
      [] tasks[t].pc = "gate" -> HeaderGateOutcomes(Current(t)) # {}
      [] tasks[t].pc = "system" -> SystemGateOutcomes(Current(t)) # {}
      [] tasks[t].pc = "claim" ->
            GmailCall("get_thread_id", get_thread_id(Current(t))) # {}
      [] tasks[t].pc \in {"ack", "error"} -> SendResults # {}
      [] OTHER -> TRUE

\* C36: with every mailbox call, send and agent session returning or raising
\* and the pool threads running, every worker submitted returns, and every
\* envelope handed to the pull callback is acked or nacked.
C36_EveryWorkerAndEnvelopeEnds ==
    /\ [](\A t \in TaskIds : CanStep(t) => StepExists(t))
    /\ \A t \in TaskIds :
          (t <= Len(tasks)) ~> (t <= Len(tasks) /\ tasks[t].pc = "done")
    /\ \A e \in EnvelopeIds :
          (e <= Len(transport))
              ~> (e <= Len(transport) /\ transport[e].verdict \in {"ack", "nack"})

\* both workers have returned and every envelope has its answer, one of them
\* an ack
C36_Witness ==
    /\ Len(tasks) = MaxDeliveries
    /\ \A t \in 1..Len(tasks) : tasks[t].pc = "done"
    /\ \A e \in 1..Len(transport) : transport[e].verdict \in {"ack", "nack"}
    /\ \E e \in 1..Len(transport) : transport[e].verdict = "ack"
    /\ agent_calls[1] > 0

(***************************************************************************)
(* What the gates leave behind for a later notification                    *)
(***************************************************************************)
\* entry k of the trace: worker t ended operation op on message m as res
Did(k, t, op, m, res) ==
    trace[k] = Event(t, op, m, res)

\* entry k of the trace is the rejection of message m at a gate
RejectedAt(k, m) ==
    /\ trace[k].op \in {"gate", "system"}
    /\ trace[k].msg = m
    /\ trace[k].res \in REJECTIONS \ {"processed"}

\* message m was added to processed_messages before entry k of the trace
MarkedBefore(k, m) ==
    \E c \in 1..(k - 1) : trace[c].op = "mark" /\ trace[c].msg = m

\* C38: a message id enters processed_messages only after its candidate has
\* passed both gates in the same worker; the step that rejects a candidate
\* leaves processed_messages alone, so a later notification that resolves to
\* the message finds it processed only if a worker that passed it has added
\* it, and otherwise starts over with the timestamp fetch.
C38_OnlyPassedCandidatesRecorded ==
    /\ [](\A c \in 1..Len(trace) :
            trace[c].op = "mark"
            => \E a, b \in 1..(c - 1) :
                 /\ a < b
                 /\ Did(a, trace[c].task, "gate", trace[c].msg, "pass")
                 /\ Did(b, trace[c].task, "system", trace[c].msg, "pass"))
    /\ [](\A m \in MessageIds :
            m \in processed_messages => MarkedBefore(Len(trace) + 1, m))
    /\ [][(/\ Len(trace') = Len(trace) + 1
            /\ trace'[Len(trace')].op \in {"gate", "system"}
            /\ trace'[Len(trace')].res \in REJECTIONS \ {"processed"})
          => processed_messages' = processed_messages]_vars
    /\ [](\A j \in 1..Len(trace) :
            (trace[j].op = "gate" /\ trace[j].res = "processed")
            => MarkedBefore(j, trace[j].msg))
    /\ [](\A t \in 1..Len(tasks) :
            (tasks[t].pc = "gate" /\ Current(t) \notin processed_messages)
            => \A o \in HeaderGateOutcomes(Current(t)) :
                 /\ o.calls # <<>>
                 /\ o.calls[1] = "get_message_timestamp")

\* the first worker rejected a message, the second one came to the same
\* message, fetched for it again and passed it on
C38_Witness ==
    \E k, j \in 1..Len(trace) :
        /\ k < j
        /\ trace[k].task = 1
        /\ RejectedAt(k, trace[k].msg)
        /\ trace[j].task = 2
        /\ trace[j].op = "gate"
        /\ trace[j].msg = trace[k].msg
        /\ trace[j].res = "pass"
        /\ trace[k].msg \notin processed_messages

\* message m is in processed_messages from entry c of the trace, where it was
\* added, at least up to entry j: no cleanup dropped it in between
RememberedFrom(c, j, m) ==
    /\ c < j
    /\ trace[c].op = "mark"
    /\ trace[c].msg = m
    /\ \A k \in (c + 1)..(j - 1) : ~(trace[k].op = "evicted" /\ trace[k].msg = m)

\* C40: while a message id is in processed_messages, added by some worker and
\* not dropped by a cleanup since, a worker that comes to the message leaves
\* it at the processed check: no mailbox call is made, nothing is
\* sent, the agent is not invoked, and the worker goes on to its next candidate.
C40_ProcessedIsRejectedAtOnce ==
    /\ [](\A c, j \in 1..Len(trace) :
            (RememberedFrom(c, j, trace[c].msg)
             /\ trace[j].op = "gate" /\ trace[j].msg = trace[c].msg)
            => /\ trace[j].res = "processed"
               /\ \A k \in (j + 1)..Len(trace) :
                     (trace[k].task = trace[j].task /\ trace[k].msg = trace[j].msg)
                     => trace[k].op = "evicted")
    /\ [](\A t \in 1..Len(tasks) :
            (tasks[t].pc = "gate" /\ Current(t) \in processed_messages)
            => HeaderGateOutcomes(Current(t)) = {ALREADY_PROCESSED})
    /\ [][\A t \in 1..Len(tasks) :
            (/\ tasks[t].pc = "gate"
             /\ Current(t) \in processed_messages
             /\ tasks'[t] # tasks[t])
            => /\ tasks'[t] = Advance(tasks[t])
               /\ mailbox' = mailbox
               /\ agent_calls' = agent_calls
               /\ processed_messages' = processed_messages]_vars

\* the first worker added a message and invoked the agent for it; the second
\* worker came to the same message and left it at the processed check
C40_Witness ==
    \E c, j \in 1..Len(trace) :
        /\ RememberedFrom(c, j, trace[c].msg)
        /\ trace[c].task = 1
        /\ trace[j] = Event(2, "gate", trace[c].msg, "processed")
        /\ agent_calls[trace[c].msg] = 1
        /\ tasks[2].pc = "done"

(***************************************************************************)
(* An exception in the candidate loop: one pull envelope whose worker has  *)
(* resolved its notification to a list of candidates, and the same         *)
(* notification delivered again once that worker is through; the trace     *)
(* starts with the candidates listed                                       *)
(***************************************************************************)
\* the notification the transport delivers, and delivers again
REDELIVERED ==
    Payload("json", "notification", 80, 1)

\* the callback has submitted the worker and waits in future.result; the
\* worker has claimed history id 1 and holds the list of candidates
InitAbandon ==
    /\ processed_messages \in {{}, {Len(WorkerMailbox)}}
    /\ processed_history_ids = {1}
    /\ sent_message_ids = {}
    /\ last_cleanup_time = START_TIME
    /\ server_start_time = START_TIME
    /\ now = START_TIME
    /\ mailbox = WorkerMailbox
    /\ \E l \in Batches :
        /\ tasks = << [NewTask(1) EXCEPT !.pc = "gate", !.current_time = START_TIME,
                                         !.recent = l, !.i = 1] >>
        /\ trace = [k \in 1..Len(l) |-> Event(1, "candidate", l[k], "listed")]
    /\ agent_calls = [m \in 1..Len(WorkerMailbox) |-> 0]
    /\ resolutions = [h \in HistoryIds |-> IF h = 1 THEN 1 ELSE 0]
    /\ evictions = [h \in HistoryIds |-> 0]
    /\ retry = Idle
    /\ probe = Idle
    /\ transport = << Envelope("pull", "yes", 1, "waiting", 0) >>
    /\ locks = [l \in LOCKS |-> 0]
    /\ left_block = {}
    /\ streaming_pull_future = "running"

NextAbandon ==
    \/ Callback(REDELIVERED)
    \/ \E e \in EnvelopeIds : e <= Len(transport) /\ FutureDone(e)
    \/ \E e \in EnvelopeIds : e <= Len(transport) /\ FutureTimeout(e)
    \/ \E t \in TaskIds : t <= Len(tasks) /\ Start(t) /\ UNCHANGED observerVars
    \/ \E t \in TaskIds : t <= Len(tasks) /\ CleanupMessages(t) /\ UNCHANGED observerVars
    \/ \E t \in TaskIds : t <= Len(tasks) /\ CursorGate(t) /\ UNCHANGED observerVars
    \/ \E t \in TaskIds : t <= Len(tasks) /\ HeaderGateTraced(t) /\ UNCHANGED <<transport, locks, left_block, streaming_pull_future>>
    \/ \E t \in TaskIds : t <= Len(tasks) /\ SystemGateTraced(t) /\ UNCHANGED <<transport, locks, left_block, streaming_pull_future>>
    \/ \E t \in TaskIds : t <= Len(tasks) /\ ClaimTraced(t) /\ UNCHANGED <<transport, locks, left_block, streaming_pull_future>>
    \/ \E t \in TaskIds : t <= Len(tasks) /\ AckTraced(t) /\ UNCHANGED <<transport, locks, left_block, streaming_pull_future>>
    \/ \E t \in TaskIds : t <= Len(tasks) /\ AckRecord(t) /\ UNCHANGED observerVars
    \/ \E t \in TaskIds : t <= Len(tasks) /\ AgentInvokeTraced(t) /\ UNCHANGED <<transport, locks, left_block, streaming_pull_future>>
    \/ \E t \in TaskIds : t <= Len(tasks) /\ AgentChunkTraced(t) /\ UNCHANGED <<transport, locks, left_block, streaming_pull_future>>
    \/ \E t \in TaskIds : t <= Len(tasks) /\ ProgressRecord(t) /\ UNCHANGED observerVars
    \/ \E t \in TaskIds : t <= Len(tasks) /\ AgentReturnTraced(t) /\ UNCHANGED <<transport, locks, left_block, streaming_pull_future>>
    \/ \E t \in TaskIds : t <= Len(tasks) /\ FinalRecord(t) /\ UNCHANGED observerVars
    \/ \E t \in TaskIds : t <= Len(tasks) /\ AgentRaiseTraced(t) /\ UNCHANGED <<transport, locks, left_block, streaming_pull_future>>
    \/ \E t \in TaskIds : t <= Len(tasks) /\ ErrorReplyTraced(t) /\ UNCHANGED <<transport, locks, left_block, streaming_pull_future>>
    \/ \E t \in TaskIds : t <= Len(tasks) /\ ErrorRecord(t) /\ UNCHANGED observerVars

SpecAbandon ==
    InitAbandon /\ [][NextAbandon]_vars

\* entry k of the trace is a call that raised outside the agent session: in a
\* gate, in the thread id fetch, in the acknowledgment or in the error reply
RaisedAt(k) ==
    /\ trace[k].op \in {"gate", "system", "mark", "ack", "error_reply"}
    /\ trace[k].res \in {"error", "raise"}

\* worker t hit an exception outside the agent session
HasRaised(t) ==
    \E k \in 1..Len(trace) : trace[k].task = t /\ RaisedAt(k)

\* the candidates listed for worker t after message m
ListedAfter(t, m) ==
    {trace[j].msg : j \in {i \in 1..Len(trace) :
        /\ trace[i].op = "candidate"
        /\ trace[i].task = t
        /\ \E a \in 1..(i - 1) : trace[a] = Event(t, "candidate", m, "listed")}}

\* after an exception outside the agent session the worker has returned, has
\* done nothing more, and none of the candidates listed after the one that
\* raised has been looked at
NothingAfterRaise ==
    \A k \in 1..Len(trace) :
        RaisedAt(k)
        => /\ k = Len(trace)
           /\ tasks[trace[k].task].pc = "done"
           /\ \A m \in ListedAfter(trace[k].task, trace[k].msg) :
                 /\ agent_calls[m] = 0
                 /\ \A j \in 1..Len(trace) :
                       trace[j].msg = m => trace[j].op = "candidate"

\* the history id of a worker that hit an exception stays claimed, and the
\* worker of a redelivery returns at the cursor gate: no second resolution
CursorStaysClaimed ==
    \A t \in 1..Len(tasks) :
        HasRaised(t)
        => /\ tasks[t].history_id \in processed_history_ids
           /\ resolutions[tasks[t].history_id] = 1
           /\ \A u \in 1..Len(tasks) :
                 (u > t /\ tasks[u].history_id = tasks[t].history_id)
                 => tasks[u].pc \in {"queued", "cleanup", "cursor", "done"}

====
